---- MODULE Spec2Model ----
(***************************************************************************)
(* The planned-change catalog of the stacks plan (package stackplan):      *)
(* every PlannedChange variant with its PlannedChangeProto method, which   *)
(* turns one event into raw records (opaque envelopes, replayed at apply   *)
(* time) and descriptions (for the RPC API client).                        *)
(*                                                                         *)
(* Modelling conventions                                                   *)
(*   - a Go pointer or optional value is a sequence of length 0 (nil) or 1 *)
(*   - a Go slice is a sequence, a Go map a function on its key set        *)
(*   - an address is modelled by its canonical string form, so String()    *)
(*     of an address is the address itself                                 *)
(*   - plans.DynamicValue (msgpack bytes of an object value) is the        *)
(*     sequence of its attribute payloads, in the order of AttrNames;      *)
(*     the empty sequence is the encoded null / nil bytes                  *)
(*   - a formatted timestamp (a Go string) is a sequence: <<>> is ""       *)
(***************************************************************************)
EXTENDS Integers, Sequences, FiniteSets, TLC

\* the planned-change catalog: the event, whether PlannedChangeProto was
\* called on it, and what it returned
VARIABLES pc, result, called

\* planfile.Create: the files on disk, the arguments of the call, the
\* position in the function body, the returned error, the zip writer
VARIABLES files, call, createAt, ret, zw

\* the walk: the stream of events appended so far, the dependencies between
\* the objects, each object's worker, the state of the walk, and what loading
\* the raw records for apply returned
VARIABLES stream, deps, workers, walk, loaded

\* evalCheckRule: the arguments of the call, whether it has returned, and the
\* checkResult and the diagnostics it returned
VARIABLES check, evaluated, ruleResult, ruleDiags

\* evalCheckRules at plan and at apply: the checkable object and its
\* surroundings, how far the run is, and what the plan and the apply stage
\* left behind (the reports made, the result table, the diagnostics)
VARIABLES run, stage, planned, applied

\* ChangeSlice: the Change being decomposed, the slice asSlice made of it,
\* the indices getChild was called with, and the child it returned
VARIABLES input, slice, ix, child

catalogVars == <<pc, result, called>>

createVars == <<files, call, createAt, ret, zw>>

walkVars == <<stream, deps, workers, walk, loaded>>

evalVars == <<check, evaluated, ruleResult, ruleDiags>>

checksVars == <<run, stage, planned, applied>>

sliceVars == <<input, slice, ix, child>>

vars == <<catalogVars, createVars, walkVars, evalVars, checksVars, sliceVars>>

\* what an operation of the catalog leaves alone
notCatalogVars == <<createVars, walkVars, evalVars, checksVars, sliceVars>>

\* what planfile.Create leaves alone
notCreateVars == <<catalogVars, walkVars, evalVars, checksVars, sliceVars>>

\* what the walk and the loader leave alone
notWalkVars == <<catalogVars, createVars, evalVars, checksVars, sliceVars>>

\* what the check evaluator leaves alone
notEvalVars == <<catalogVars, createVars, walkVars, checksVars, sliceVars>>

\* what a plan or an apply of the checks leaves alone
notChecksVars == <<catalogVars, createVars, walkVars, evalVars, sliceVars>>

\* what the decomposition of a Change leaves alone
notSliceVars == <<catalogVars, createVars, walkVars, evalVars, checksVars>>

\* no planned change is being encoded
CatalogIdle ==
    /\ pc = [kind |-> "none"]
    /\ result = [ok |-> FALSE, Raw |-> <<>>, Descriptions |-> <<>>, err |-> ""]
    /\ called = TRUE

\* no plan file is being created
CreateIdle ==
    /\ files = <<>>
    /\ call = <<>>
    /\ createAt = "idle"
    /\ ret = ""
    /\ zw = <<>>

\* no walk is running
WalkIdle ==
    /\ stream = <<>>
    /\ deps = <<>>
    /\ workers = <<>>
    /\ walk = "idle"
    /\ loaded = [done |-> FALSE]

\* no check rule is being evaluated
EvalIdle ==
    /\ check = <<>>
    /\ evaluated = TRUE
    /\ ruleResult = <<>>
    /\ ruleDiags = <<>>

\* no checkable object is being planned or applied
ChecksIdle ==
    /\ run = <<>>
    /\ stage = "idle"
    /\ planned = <<>>
    /\ applied = <<>>

\* no Change is being decomposed
SliceIdle ==
    /\ input = <<>>
    /\ slice = <<>>
    /\ ix = <<>>
    /\ child = <<>>

(***************************************************************************)
(* Bounds of the input space.                                              *)
(***************************************************************************)
NumVals == 2

MaxSec == 1

MaxNsec == 1

Vals == 0 .. (NumVals - 1)

(***************************************************************************)
(* Attribute paths.  BadPath stands for a cty.Path with a step that the    *)
(* plan encoders cannot represent.                                         *)
(***************************************************************************)
AttrNames == <<"id", "secret">>

BadPath == "bad[?]"

AllPaths == AttrNames \o <<BadPath>>

PathIndex(p) == CHOOSE i \in 1 .. Len(AttrNames) : AttrNames[i] = p

EncodedNull == <<>>

EncodedObjects == [1 .. Len(AttrNames) -> Vals]

DynamicValues == {EncodedNull} \cup EncodedObjects

(***************************************************************************)
(* cty.Value as held by an event before encoding: cty.NilVal, or a known   *)
(* value carrying no mark, the sensitive mark, or some other mark.         *)
(***************************************************************************)
NilVal == [kind |-> "nil", v |-> 0, mark |-> "none"]

CtyMarks == {"none", "sensitive", "other"}

CtyValues == {NilVal} \cup [kind : {"known"}, v : Vals, mark : CtyMarks]

(***************************************************************************)
(* time.Time: seconds and nanoseconds (UTC).  The Go zero time is sec = 0, *)
(* nsec = 0.                                                               *)
(***************************************************************************)
Times == [sec : 0 .. MaxSec, nsec : 0 .. MaxNsec]

zeroTime == [sec |-> 0, nsec |-> 0]

\* time.Time.Format(time.RFC3339): whole seconds only, no fractional part.
FormatRFC3339(t) == <<t.sec>>

(***************************************************************************)
(* The value PlannedChangeProto returns: a terraform1.PlannedChange or an   *)
(* error.                                                                  *)
(***************************************************************************)
NoResult == [ok |-> FALSE, Raw |-> <<>>, Descriptions |-> <<>>, err |-> ""]

Fail(e) == [ok |-> FALSE, Raw |-> <<>>, Descriptions |-> <<>>, err |-> e]

PlannedChange(raw, descs) ==
    [ok |-> TRUE, Raw |-> raw, Descriptions |-> descs, err |-> ""]

\* anypb.MarshalFrom: the envelope names the message type and holds the message.
MarshalFrom(typeName, msg) == [TypeUrl |-> typeName, Value |-> msg]

\* proto.Marshal rejects a string field that is not valid UTF-8.
BadUTF8 == "\\xff"

ValidUTF8(s) == s # BadUTF8

(***************************************************************************)
(* Plan actions (plans.Action) and their external change types.            *)
(***************************************************************************)
Actions ==
    {"NoOp", "Create", "Read", "Update", "Delete", "DeleteThenCreate", "CreateThenDelete"}

ChangeTypesForPlanAction(action) ==
    CASE action = "NoOp" -> [ok |-> TRUE, types |-> <<"NOOP">>]
      [] action = "Create" -> [ok |-> TRUE, types |-> <<"CREATE">>]
      [] action = "Read" -> [ok |-> TRUE, types |-> <<"READ">>]
      [] action = "Update" -> [ok |-> TRUE, types |-> <<"UPDATE">>]
      [] action = "Delete" -> [ok |-> TRUE, types |-> <<"DELETE">>]
      [] action = "DeleteThenCreate" -> [ok |-> TRUE, types |-> <<"DELETE", "CREATE">>]
      [] action = "CreateThenDelete" -> [ok |-> TRUE, types |-> <<"CREATE", "DELETE">>]
      [] OTHER -> [ok |-> FALSE, types |-> <<>>]

\* terraform1.NewDynamicValue: the encoded value together with the list of
\* its sensitive paths.
NewDynamicValueProto(dv, sensitivePaths) ==
    [Msgpack |-> dv, Sensitive |-> sensitivePaths]

(***************************************************************************)
(* PlannedChangeRootInputValue                                             *)
(***************************************************************************)
VariableNames == {"var_a", "var_b"}

RootInputValues ==
    [kind : {"RootInputValue"}, Addr : VariableNames, Value : CtyValues,
     RequiredOnApply : BOOLEAN]

\* plans.NewDynamicValue(val, cty.DynamicPseudoType): msgpack of the value
\* with its dynamic type; a marked value cannot be serialized.
NewDynamicValue(val) ==
    IF val.mark # "none"
    THEN [ok |-> FALSE, dv |-> <<>>]
    ELSE [ok |-> TRUE, dv |-> <<val.v>>]

\* variant: the description is emitted for every variable
RootInputValue_DescsAlways(e) ==
    <<[kind |-> "ApplyTimeInputVariable", Name |-> e.Addr]>>

RootInputValue_Descs(e) ==
    IF e.RequiredOnApply
    THEN <<[kind |-> "ApplyTimeInputVariable", Name |-> e.Addr]>>
    ELSE <<>>

\* variant: an absent value is persisted as a zero value
RootInputValue_MessageZeroValue(e, ppdv) ==
    [Name |-> e.Addr, Value |-> <<[Msgpack |-> <<0>>]>>,
     RequiredOnApply |-> e.RequiredOnApply]

RootInputValue_Message(e, ppdv) ==
    [Name |-> e.Addr, Value |-> ppdv, RequiredOnApply |-> e.RequiredOnApply]

\* variant: a value that cannot be encoded is left out and the record is
\* emitted without it
RootInputValue_PlannedChangeProto_DropValue(e) ==
    LET enc == NewDynamicValue(e.Value)
        ppdv == IF e.Value # NilVal /\ enc.ok THEN <<[Msgpack |-> enc.dv]>> ELSE <<>>
    IN  PlannedChange(
            <<MarshalFrom("PlanRootInputValue", RootInputValue_Message(e, ppdv))>>,
            RootInputValue_Descs(e))

RootInputValue_PlannedChangeProto(e) ==
    LET enc == NewDynamicValue(e.Value)
        ppdv == IF e.Value # NilVal THEN <<[Msgpack |-> enc.dv]>> ELSE <<>>
    IN  IF e.Value # NilVal /\ ~enc.ok
        THEN Fail("can't encode value")
        ELSE PlannedChange(
                 <<MarshalFrom("PlanRootInputValue", RootInputValue_Message(e, ppdv))>>,
                 RootInputValue_Descs(e))

(***************************************************************************)
(* PlannedChangeApplyable                                                  *)
(***************************************************************************)
Applyables == [kind : {"Applyable"}, Applyable : BOOLEAN]

\* variant: the description always announces an applyable plan
Applyable_DescsConstant(e) == <<[kind |-> "PlanApplyable", PlanApplyable |-> TRUE]>>

Applyable_Descs(e) == <<[kind |-> "PlanApplyable", PlanApplyable |-> e.Applyable]>>

Applyable_PlannedChangeProto(e) ==
    PlannedChange(
        <<MarshalFrom("PlanApplyable", [Applyable |-> e.Applyable])>>,
        Applyable_Descs(e))

(***************************************************************************)
(* PlannedChangeHeader, PlannedChangePriorStateElement,                    *)
(* PlannedChangePlannedTimestamp: raw only.                                *)
(***************************************************************************)
Versions == {"1.9.0", "1.10.0"}

Headers == [kind : {"Header"}, TerraformVersion : Versions]

\* variant: the header is also described to the caller
Header_PlannedChangeProto_Described(e) ==
    PlannedChange(
        <<MarshalFrom("PlanHeader", [TerraformVersion |-> e.TerraformVersion])>>,
        <<[kind |-> "PlanHeader", TerraformVersion |-> e.TerraformVersion]>>)

\* variant: the header is described and has no raw record
Header_PlannedChangeProto_DescriptionOnly(e) ==
    PlannedChange(
        <<>>,
        <<[kind |-> "PlanHeader", TerraformVersion |-> e.TerraformVersion]>>)

Header_PlannedChangeProto(e) ==
    PlannedChange(
        <<MarshalFrom("PlanHeader", [TerraformVersion |-> e.TerraformVersion])>>,
        <<>>)

StateKeys == {"RSRCcomponent.c,r.a,cur", BadUTF8}

\* the carried-over payload is itself an opaque envelope
CarriedPayloads == {MarshalFrom("StateResourceInstanceObjectV1", <<v>>) : v \in Vals}

PriorStateElements == [kind : {"PriorStateElement"}, Key : StateKeys, Raw : CarriedPayloads]

PriorStateElement_PlannedChangeProto(e) ==
    IF ~ValidUTF8(e.Key)
    THEN Fail("string field contains invalid UTF-8")
    ELSE PlannedChange(
             <<MarshalFrom("PlanPriorStateElem", [Key |-> e.Key, Raw |-> e.Raw])>>,
             <<>>)

PlannedTimestamps == [kind : {"PlannedTimestamp"}, PlannedTimestamp : Times]

PlannedTimestamp_PlannedChangeProto(e) ==
    PlannedChange(
        <<MarshalFrom("PlanTimestamp",
                      [PlanTimestamp |-> FormatRFC3339(e.PlannedTimestamp)])>>,
        <<>>)

(***************************************************************************)
(* plans.ResourceInstanceChangeSrc and states.ResourceInstanceObjectSrc    *)
(***************************************************************************)
ComponentInstanceAddrs == {"component.web", "component.web[\"a\"]"}

ResourceInstanceAddrs == {[Mode |-> "managed", Type |-> "test_thing", Name |-> "a"]}

PrevRunAddrs ==
    ResourceInstanceAddrs \cup {[Mode |-> "managed", Type |-> "test_thing", Name |-> "old"]}

DeposedKeys == {"current", "deposed-1"}

ProviderConfigAddrs == {"provider[\"example.com/test/test\"]"}

ProviderOf(providerConfigAddr) == "example.com/test/test"

\* the (action, before, after) triples the planner produces for a resource
ChangeShapes ==
    [Action : {"Create", "Read"}, Before : {EncodedNull}, After : EncodedObjects]
        \cup [Action : {"Delete"}, Before : EncodedObjects, After : {EncodedNull}]
        \cup {[Action |-> "NoOp", Before |-> o, After |-> o] : o \in EncodedObjects}
        \cup [Action : {"Update", "DeleteThenCreate", "CreateThenDelete"},
              Before : EncodedObjects, After : EncodedObjects]

SensitivePathLists == {<<>>, <<"secret">>, <<"id", "secret">>}

Importings == {<<>>, <<[ID |-> "import-id", Unknown |-> FALSE]>>, <<[ID |-> "", Unknown |-> TRUE]>>}

RequiredReplaces == {{}, {"id"}, {BadPath}}

BaseChange ==
    [Addr |-> CHOOSE a \in ResourceInstanceAddrs : TRUE,
     PrevRunAddr |-> CHOOSE a \in ResourceInstanceAddrs : TRUE,
     ProviderAddr |-> CHOOSE a \in ProviderConfigAddrs : TRUE,
     Action |-> "Update",
     Before |-> [i \in 1 .. Len(AttrNames) |-> 0],
     After |-> [i \in 1 .. Len(AttrNames) |-> NumVals - 1],
     BeforeSensitivePaths |-> <<"secret">>,
     AfterSensitivePaths |-> <<"secret">>,
     RequiredReplace |-> {},
     Importing |-> <<>>]

\* the changes: every shape with every sensitivity, and every combination of
\* forced replacement, move and import on the base change
ChangeSrcs ==
    {[BaseChange EXCEPT !.Action = sh.Action, !.Before = sh.Before, !.After = sh.After,
                        !.BeforeSensitivePaths = bs, !.AfterSensitivePaths = as] :
        sh \in ChangeShapes, bs \in SensitivePathLists, as \in SensitivePathLists}
    \cup
    {[BaseChange EXCEPT !.RequiredReplace = rr, !.PrevRunAddr = pa, !.Importing = im] :
        rr \in RequiredReplaces, pa \in PrevRunAddrs, im \in Importings}

PriorStateSrcs == {[AttrsJSON |-> o, Status |-> "ObjectReady"] : o \in {[i \in 1 .. Len(AttrNames) |-> v] : v \in Vals}}

\* Schema can be nil if and only if ChangeSrc and PriorStateSrc are both nil.
SchemaFor(changeSrc, priorStateSrc) ==
    IF changeSrc = <<>> /\ priorStateSrc = <<>> THEN <<>> ELSE <<"test_thing schema">>

ResourceInstancePlanneds ==
    {[kind |-> "ResourceInstancePlanned",
      ResourceInstanceObjectAddr |->
          [Component |-> c, ResourceInstance |-> r, DeposedKey |-> dk],
      ChangeSrc |-> ch,
      PriorStateSrc |-> ps,
      ProviderConfigAddr |-> pv,
      Schema |-> SchemaFor(ch, ps)] :
        c \in ComponentInstanceAddrs, r \in ResourceInstanceAddrs, dk \in DeposedKeys,
        ch \in {<<>>} \cup {<<x>> : x \in ChangeSrcs},
        ps \in {<<>>} \cup {<<x>> : x \in PriorStateSrcs},
        pv \in ProviderConfigAddrs}

\* planproto.NewPath: a path with a step that has no proto form is an error
NewPathOk(p) == p # BadPath

\* planproto.NewAction
NewAction(action) ==
    CASE action = "NoOp" -> "NOOP"
      [] action = "Create" -> "CREATE"
      [] action = "Read" -> "READ"
      [] action = "Update" -> "UPDATE"
      [] action = "Delete" -> "DELETE"
      [] action = "DeleteThenCreate" -> "DELETE_THEN_CREATE"
      [] action = "CreateThenDelete" -> "CREATE_THEN_DELETE"

\* the paths of a cty.PathSet as a list
PathList(pathSet) == SelectSeq(AllPaths, LAMBDA p : p \in pathSet)

SeqRange(s) == {s[i] : i \in 1 .. Len(s)}

\* planfile.ResourceChangeToProto: nil for a nil change; otherwise the change
\* field by field, failing on a path it cannot encode
ResourceChangeToProto(changeSrc) ==
    IF changeSrc = <<>>
    THEN [ok |-> TRUE, msg |-> <<>>]
    ELSE LET ch == changeSrc[1]
             paths == ch.RequiredReplace \cup SeqRange(ch.BeforeSensitivePaths)
                          \cup SeqRange(ch.AfterSensitivePaths)
         IN  IF \E p \in paths : ~NewPathOk(p)
             THEN [ok |-> FALSE, msg |-> <<>>]
             ELSE [ok |-> TRUE,
                   msg |-> <<[Addr |-> ch.Addr,
                              PrevRunAddr |-> ch.PrevRunAddr,
                              Provider |-> ch.ProviderAddr,
                              Action |-> NewAction(ch.Action),
                              Values |-> <<ch.Before, ch.After>>,
                              BeforeSensitivePaths |-> ch.BeforeSensitivePaths,
                              AfterSensitivePaths |-> ch.AfterSensitivePaths,
                              RequiredReplace |-> PathList(ch.RequiredReplace),
                              Importing |-> ch.Importing]>>]

\* tfstackdata1.ResourceInstanceObjectStateToTFStackData1: nil for a nil object
ResourceInstanceObjectStateToTFStackData1(priorStateSrc, providerConfigAddr) ==
    IF priorStateSrc = <<>>
    THEN <<>>
    ELSE <<[ValueJson |-> priorStateSrc[1].AttrsJSON,
            Status |-> "READY",
            ProviderConfigAddr |-> providerConfigAddr]>>

(***************************************************************************)
(* PlannedChangeResourceInstancePlanned                                    *)
(***************************************************************************)
\* variant: the placeholder forgets the deposed key
PlaceholderProto_NoDeposedKey(e) ==
    [ComponentInstanceAddr |-> e.ResourceInstanceObjectAddr.Component,
     ResourceInstanceAddr |-> e.ResourceInstanceObjectAddr.ResourceInstance,
     DeposedKey |-> "current",
     ProviderConfigAddr |-> e.ProviderConfigAddr,
     Change |-> <<>>,
     PriorState |-> <<>>]

PlaceholderProto(e) ==
    [ComponentInstanceAddr |-> e.ResourceInstanceObjectAddr.Component,
     ResourceInstanceAddr |-> e.ResourceInstanceObjectAddr.ResourceInstance,
     DeposedKey |-> e.ResourceInstanceObjectAddr.DeposedKey,
     ProviderConfigAddr |-> e.ProviderConfigAddr,
     Change |-> <<>>,
     PriorState |-> <<>>]

PlanResourceInstanceChangePlannedProto(e) ==
    IF e.ChangeSrc = <<>> /\ e.PriorStateSrc = <<>>
    THEN [ok |-> TRUE, msg |-> PlaceholderProto(e)]
    ELSE LET priorStateProto ==
                 ResourceInstanceObjectStateToTFStackData1(e.PriorStateSrc, e.ProviderConfigAddr)
             changeProto == ResourceChangeToProto(e.ChangeSrc)
         IN  IF ~changeProto.ok
             THEN [ok |-> FALSE, msg |-> PlaceholderProto(e)]
             ELSE [ok |-> TRUE,
                   msg |-> [ComponentInstanceAddr |-> e.ResourceInstanceObjectAddr.Component,
                            ResourceInstanceAddr |-> e.ResourceInstanceObjectAddr.ResourceInstance,
                            DeposedKey |-> e.ResourceInstanceObjectAddr.DeposedKey,
                            ProviderConfigAddr |-> e.ProviderConfigAddr,
                            Change |-> changeProto.msg,
                            PriorState |-> priorStateProto]]

\* encodePathSet: nil for the empty set, otherwise the paths as a list
encodePathSet(pathSet) == IF pathSet = {} THEN <<>> ELSE PathList(pathSet)

\* ResourceInstanceChangeSrc.Moved
Moved(ch) == ch.Addr # ch.PrevRunAddr

\* the PlannedChange_ResourceInstance message of a change
ResourceInstanceSummary(e, ch, protoChangeTypes) ==
    [Addr |-> [ComponentInstanceAddr |-> e.ResourceInstanceObjectAddr.Component,
               ResourceInstanceAddr |-> e.ResourceInstanceObjectAddr.ResourceInstance,
               DeposedKey |-> e.ResourceInstanceObjectAddr.DeposedKey],
     ResourceMode |-> ch.Addr.Mode,
     ResourceType |-> ch.Addr.Type,
     ProviderAddr |-> ProviderOf(ch.ProviderAddr),
     Actions |-> protoChangeTypes,
     Values |-> [Old |-> NewDynamicValueProto(ch.Before, ch.BeforeSensitivePaths),
                 New |-> NewDynamicValueProto(ch.After, ch.AfterSensitivePaths)],
     ReplacePaths |-> encodePathSet(ch.RequiredReplace),
     Moved |-> IF Moved(ch)
               THEN <<[PrevAddr |-> [ComponentInstanceAddr |-> e.ResourceInstanceObjectAddr.Component,
                                     ResourceInstanceAddr |-> ch.PrevRunAddr]]>>
               ELSE <<>>,
     Imported |-> IF ch.Importing # <<>>
                  THEN <<[ImportId |-> ch.Importing[1].ID, Unknown |-> ch.Importing[1].Unknown]>>
                  ELSE <<>>]

\* returns (description or nil, error)
ChangeDescription(e) ==
    IF e.ChangeSrc = <<>>
    THEN [ok |-> TRUE, desc |-> <<>>]
    ELSE LET ch == e.ChangeSrc[1]
             protoChangeTypes == ChangeTypesForPlanAction(ch.Action)
         IN  IF ~protoChangeTypes.ok
             THEN [ok |-> FALSE, desc |-> <<>>]
             ELSE [ok |-> TRUE,
                   desc |-> <<[kind |-> "ResourceInstancePlanned",
                               ResourceInstancePlanned |->
                                   ResourceInstanceSummary(e, ch, protoChangeTypes.types)]>>]

\* variant: the description is computed but never appended
ResourceInstancePlanned_PlannedChangeProto_NoDesc(e) ==
    LET pric == PlanResourceInstanceChangePlannedProto(e)
        raw == MarshalFrom("PlanResourceInstanceChangePlanned", pric.msg)
        desc == ChangeDescription(e)
    IN  IF ~pric.ok
        THEN Fail("converting resource instance change to proto")
        ELSE IF ~desc.ok
        THEN Fail("unsupported action")
        ELSE PlannedChange(<<raw>>, <<>>)

ResourceInstancePlanned_PlannedChangeProto(e) ==
    LET pric == PlanResourceInstanceChangePlannedProto(e)
        raw == MarshalFrom("PlanResourceInstanceChangePlanned", pric.msg)
        desc == ChangeDescription(e)
    IN  IF ~pric.ok
        THEN Fail("converting resource instance change to proto")
        ELSE IF e.ChangeSrc = <<>> /\ e.PriorStateSrc = <<>>
        THEN PlannedChange(<<raw>>, <<>>)
        ELSE IF ~desc.ok
        THEN Fail("unsupported action")
        ELSE PlannedChange(<<raw>>, desc.desc)

(***************************************************************************)
(* PlannedChangeDeferredResourceInstancePlanned                            *)
(***************************************************************************)
RecognisedReasons ==
    {"InstanceCountUnknown", "ResourceConfigUnknown", "ProviderConfigUnknown",
     "AbsentPrereq", "DeferredPrereq"}

\* providers.DeferredReason: the recognised reasons, the invalid zero value,
\* and a value this version does not know
DeferredReasons == RecognisedReasons \cup {"Invalid", "FutureReason"}

\* planfile.DeferredReasonToProto: (reason, error); the caller drops the error
DeferredReasonToProto(reason) ==
    CASE reason = "InstanceCountUnknown" -> [ok |-> TRUE, reason |-> "planproto.INSTANCE_COUNT_UNKNOWN"]
      [] reason = "ResourceConfigUnknown" -> [ok |-> TRUE, reason |-> "planproto.RESOURCE_CONFIG_UNKNOWN"]
      [] reason = "ProviderConfigUnknown" -> [ok |-> TRUE, reason |-> "planproto.PROVIDER_CONFIG_UNKNOWN"]
      [] reason = "AbsentPrereq" -> [ok |-> TRUE, reason |-> "planproto.ABSENT_PREREQ"]
      [] reason = "DeferredPrereq" -> [ok |-> TRUE, reason |-> "planproto.DEFERRED_PREREQ"]
      [] OTHER -> [ok |-> FALSE, reason |-> "planproto.INVALID"]

\* variant: two prerequisite reasons share one member
EncodeDeferred_MergedPrereq(reason) ==
    CASE reason = "InstanceCountUnknown" -> [Reason |-> "INSTANCE_COUNT_UNKNOWN"]
      [] reason = "ResourceConfigUnknown" -> [Reason |-> "RESOURCE_CONFIG_UNKNOWN"]
      [] reason = "ProviderConfigUnknown" -> [Reason |-> "PROVIDER_CONFIG_UNKNOWN"]
      [] reason = "AbsentPrereq" -> [Reason |-> "DEFERRED_PREREQ"]
      [] reason = "DeferredPrereq" -> [Reason |-> "DEFERRED_PREREQ"]
      [] OTHER -> [Reason |-> "INVALID"]

EncodeDeferred(reason) ==
    CASE reason = "InstanceCountUnknown" -> [Reason |-> "INSTANCE_COUNT_UNKNOWN"]
      [] reason = "ResourceConfigUnknown" -> [Reason |-> "RESOURCE_CONFIG_UNKNOWN"]
      [] reason = "ProviderConfigUnknown" -> [Reason |-> "PROVIDER_CONFIG_UNKNOWN"]
      [] reason = "AbsentPrereq" -> [Reason |-> "ABSENT_PREREQ"]
      [] reason = "DeferredPrereq" -> [Reason |-> "DEFERRED_PREREQ"]
      [] OTHER -> [Reason |-> "INVALID"]

DeferredResourceInstancePlanneds ==
    [kind : {"DeferredResourceInstancePlanned"},
     ResourceInstancePlanned : ResourceInstancePlanneds,
     DeferredReason : DeferredReasons]

\* ricd.GetResourceInstancePlanned(): nil for a nil description
GetResourceInstancePlanned(desc) ==
    IF desc = <<>> THEN <<>> ELSE <<desc[1].ResourceInstancePlanned>>

Deferred_Message(change, deferredReason) ==
    [Change |-> <<change>>, Deferred |-> [Reason |-> deferredReason]]

\* variant: the deferred description drops the resource summary
Deferred_Descs_NoSummary(ricd, reason) ==
    <<[kind |-> "ResourceInstanceDeferred",
       ResourceInstance |-> <<>>,
       Deferred |-> EncodeDeferred(reason)]>>

Deferred_Descs(ricd, reason) ==
    <<[kind |-> "ResourceInstanceDeferred",
       ResourceInstance |-> GetResourceInstancePlanned(ricd),
       Deferred |-> EncodeDeferred(reason)]>>

Deferred_PlannedChangeProto(e) ==
    LET change == PlanResourceInstanceChangePlannedProto(e.ResourceInstancePlanned)
        deferredReason == DeferredReasonToProto(e.DeferredReason).reason
        raw == MarshalFrom("PlanDeferredResourceInstanceChange",
                           Deferred_Message(change.msg, deferredReason))
        ricd == ChangeDescription(e.ResourceInstancePlanned)
    IN  IF ~change.ok
        THEN Fail("converting resource instance change to proto")
        ELSE IF ~ricd.ok
        THEN Fail("unsupported action")
        ELSE PlannedChange(<<raw>>, Deferred_Descs(ricd.desc, e.DeferredReason))

(***************************************************************************)
(* PlannedChangeOutputValue: a description only, no raw record             *)
(***************************************************************************)
OutputNames == {"out_a", "out_b"}

OutputValues ==
    [kind : {"OutputValue"}, Addr : OutputNames, Action : Actions,
     OldValue : DynamicValues, NewValue : DynamicValues,
     OldValueSensitivePaths : SensitivePathLists,
     NewValueSensitivePaths : SensitivePathLists]

OutputValue_Descs(e, protoChangeTypes) ==
    <<[kind |-> "OutputValuePlanned",
       OutputValuePlanned |->
           [Name |-> e.Addr,
            Actions |-> protoChangeTypes,
            Values |-> [Old |-> NewDynamicValueProto(e.OldValue, e.OldValueSensitivePaths),
                        New |-> NewDynamicValueProto(e.NewValue, e.NewValueSensitivePaths)]]]>>

\* variant: the output value is also written to the raw plan
OutputValue_PlannedChangeProto_WithRaw(e) ==
    LET protoChangeTypes == ChangeTypesForPlanAction(e.Action)
    IN  IF ~protoChangeTypes.ok
        THEN Fail("unsupported action")
        ELSE PlannedChange(
                 <<MarshalFrom("PlanOutputValue", [Name |-> e.Addr, Value |-> e.NewValue])>>,
                 OutputValue_Descs(e, protoChangeTypes.types))

OutputValue_PlannedChangeProto(e) ==
    LET protoChangeTypes == ChangeTypesForPlanAction(e.Action)
    IN  IF ~protoChangeTypes.ok
        THEN Fail("unsupported action")
        ELSE PlannedChange(<<>>, OutputValue_Descs(e, protoChangeTypes.types))

(***************************************************************************)
(* PlannedChangeComponentInstance                                          *)
(***************************************************************************)
ComponentAddrs == <<"component.db", "component.net">>

ComponentActions == {"Create", "Delete", "NoOp"}

Modes == {"NormalMode", "DestroyMode", "RefreshOnlyMode"}

\* stackaddrs.ConfigComponentForAbsInstance: the component without its instance key
ConfigComponentForAbsInstance(addr) ==
    IF addr = "component.web[\"a\"]" THEN "component.web" ELSE addr

InputValueMaps == {<<>>} \cup {[k \in {"in"} |-> o] : o \in EncodedObjects}

InputMarkMaps == {<<>>, [k \in {"in"} |-> <<"secret">>], [k \in {"in"} |-> <<BadPath>>]}

OutputValueMaps ==
    {<<>>} \cup {[k \in {"out"} |-> o] : o \in [kind : {"known"}, v : Vals, mark : CtyMarks]}

\* marks are recorded only for the values that exist
MarkedInputs ==
    {in \in InputValueMaps \X InputMarkMaps : DOMAIN in[2] \subseteq DOMAIN in[1]}

CheckResultSets == {<<>>, <<"CheckPass">>, <<"CheckFail">>}

BaseComponentInstance ==
    [kind |-> "ComponentInstance",
     Addr |-> "component.web",
     PlanApplyable |-> TRUE,
     PlanComplete |-> TRUE,
     Action |-> "Create",
     Mode |-> "NormalMode",
     RequiredComponents |-> {},
     PlannedInputValues |-> <<>>,
     PlannedInputValueMarks |-> <<>>,
     PlannedOutputValues |-> <<>>,
     PlannedCheckResults |-> <<>>,
     PlanTimestamp |-> zeroTime]

ComponentInstances ==
    {[BaseComponentInstance EXCEPT !.Addr = a, !.PlanApplyable = pa, !.PlanComplete = cp,
                                   !.Action = act, !.Mode = m, !.RequiredComponents = rc,
                                   !.PlanTimestamp = t] :
        a \in {"component.web", "component.web[\"a\"]"}, pa \in BOOLEAN, cp \in BOOLEAN,
        act \in ComponentActions, m \in Modes, rc \in SUBSET SeqRange(ComponentAddrs),
        t \in {zeroTime, [sec |-> MaxSec, nsec |-> 0]}}
    \cup
    {[BaseComponentInstance EXCEPT !.PlannedInputValues = in[1],
                                   !.PlannedInputValueMarks = in[2],
                                   !.PlannedOutputValues = ov, !.PlannedCheckResults = cr,
                                   !.PlanTimestamp = t] :
        in \in MarkedInputs, ov \in OutputValueMaps, cr \in CheckResultSets, t \in Times}

\* tfstackdata1.DynamicValueToTFStackData1(v, cty.DynamicPseudoType): the value
\* unmarked and encoded, with the paths that carried the sensitive mark; any
\* other mark cannot be serialized
DynamicValueToTFStackData1(val) ==
    IF val.mark = "other"
    THEN [ok |-> FALSE, dv |-> <<>>]
    ELSE [ok |-> TRUE,
          dv |-> <<[Value |-> [Msgpack |-> <<val.v>>],
                    SensitivePaths |-> IF val.mark = "sensitive" THEN <<"(root)">> ELSE <<>>]>>]

\* planfile.CheckResultsToPlanProto
CheckResultsToPlanProto(checkResults) ==
    IF checkResults = <<>> THEN <<>>
    ELSE IF checkResults[1] = "CheckPass" THEN <<"PASS">> ELSE <<"FAIL">>

\* planproto.NewMode
NewMode(mode) ==
    CASE mode = "NormalMode" -> [ok |-> TRUE, mode |-> "NORMAL"]
      [] mode = "DestroyMode" -> [ok |-> TRUE, mode |-> "DESTROY"]
      [] mode = "RefreshOnlyMode" -> [ok |-> TRUE, mode |-> "REFRESH_ONLY"]
      [] OTHER -> [ok |-> FALSE, mode |-> "NORMAL"]

\* variant: the sensitive paths of the input values are not recorded
ComponentInstance_plannedInputValues_NoPaths(e) ==
    [k \in DOMAIN e.PlannedInputValues |->
        [Value |-> [Msgpack |-> e.PlannedInputValues[k]], SensitivePaths |-> <<>>]]

ComponentInstance_plannedInputValues(e) ==
    [k \in DOMAIN e.PlannedInputValues |->
        [Value |-> [Msgpack |-> e.PlannedInputValues[k]],
         SensitivePaths |-> IF k \in DOMAIN e.PlannedInputValueMarks
                            THEN e.PlannedInputValueMarks[k]
                            ELSE <<>>]]

ComponentInstance_planTimestampStr(e) ==
    IF e.PlanTimestamp # zeroTime THEN FormatRFC3339(e.PlanTimestamp) ELSE <<>>

\* variant: the record does not keep the addresses of the components the
\* instance depends on
ComponentInstance_Message_NoDependencies(e) ==
    [ComponentInstanceAddr |-> e.Addr,
     PlanTimestamp |-> ComponentInstance_planTimestampStr(e),
     PlannedInputValues |-> ComponentInstance_plannedInputValues(e),
     PlannedAction |-> NewAction(e.Action),
     Mode |-> NewMode(e.Mode).mode,
     PlanApplyable |-> e.PlanApplyable,
     PlanComplete |-> e.PlanComplete,
     DependsOnComponentAddrs |-> <<>>,
     PlannedOutputValues |->
         [k \in DOMAIN e.PlannedOutputValues |->
             DynamicValueToTFStackData1(e.PlannedOutputValues[k]).dv[1]],
     PlannedCheckResults |-> CheckResultsToPlanProto(e.PlannedCheckResults)]

ComponentInstance_Message(e) ==
    [ComponentInstanceAddr |-> e.Addr,
     PlanTimestamp |-> ComponentInstance_planTimestampStr(e),
     PlannedInputValues |-> ComponentInstance_plannedInputValues(e),
     PlannedAction |-> NewAction(e.Action),
     Mode |-> NewMode(e.Mode).mode,
     PlanApplyable |-> e.PlanApplyable,
     PlanComplete |-> e.PlanComplete,
     DependsOnComponentAddrs |-> SelectSeq(ComponentAddrs, LAMBDA c : c \in e.RequiredComponents),
     PlannedOutputValues |->
         [k \in DOMAIN e.PlannedOutputValues |->
             DynamicValueToTFStackData1(e.PlannedOutputValues[k]).dv[1]],
     PlannedCheckResults |-> CheckResultsToPlanProto(e.PlannedCheckResults)]

ComponentInstance_Descs(e, protoChangeTypes) ==
    <<[kind |-> "ComponentInstancePlanned",
       ComponentInstancePlanned |->
           [Addr |-> [ComponentAddr |-> ConfigComponentForAbsInstance(e.Addr),
                      ComponentInstanceAddr |-> e.Addr],
            Actions |-> protoChangeTypes,
            PlanComplete |-> e.PlanComplete]]>>

ComponentInstance_PlannedChangeProto(e) ==
    LET protoChangeTypes == ChangeTypesForPlanAction(e.Action)
    IN  IF \E k \in DOMAIN e.PlannedInputValues :
              /\ k \in DOMAIN e.PlannedInputValueMarks
              /\ \E p \in SeqRange(e.PlannedInputValueMarks[k]) : ~NewPathOk(p)
        THEN Fail("unsupported path step")
        ELSE IF \E k \in DOMAIN e.PlannedOutputValues :
                   ~DynamicValueToTFStackData1(e.PlannedOutputValues[k]).ok
        THEN Fail("encoding output value")
        ELSE IF ~NewMode(e.Mode).ok
        THEN Fail("failed to encode mode")
        ELSE IF ~protoChangeTypes.ok
        THEN Fail("unsupported action")
        ELSE PlannedChange(
                 <<MarshalFrom("PlanComponentInstance", ComponentInstance_Message(e))>>,
                 ComponentInstance_Descs(e, protoChangeTypes.types))

(***************************************************************************)
(* The events PlannedChangeProto is applied to, and the state machine: an  *)
(* event is constructed once (Init), then its PlannedChangeProto is called *)
(* once and the returned value is recorded.                                *)
(***************************************************************************)
PlannedChanges ==
    RootInputValues \cup Applyables \cup Headers \cup PriorStateElements
        \cup PlannedTimestamps \cup ResourceInstancePlanneds
        \cup DeferredResourceInstancePlanneds \cup OutputValues
        \cup ComponentInstances

Init ==
    /\ pc \in PlannedChanges
    /\ result = NoResult
    /\ called = FALSE
    /\ CreateIdle
    /\ WalkIdle
    /\ EvalIdle
    /\ ChecksIdle
    /\ SliceIdle

EmitComponentInstance ==
    /\ ~called
    /\ pc.kind = "ComponentInstance"
    /\ result' = ComponentInstance_PlannedChangeProto(pc)
    /\ called' = TRUE
    /\ UNCHANGED <<pc, notCatalogVars>>

EmitResourceInstancePlanned ==
    /\ ~called
    /\ pc.kind = "ResourceInstancePlanned"
    /\ result' = ResourceInstancePlanned_PlannedChangeProto(pc)
    /\ called' = TRUE
    /\ UNCHANGED <<pc, notCatalogVars>>

EmitDeferredResourceInstancePlanned ==
    /\ ~called
    /\ pc.kind = "DeferredResourceInstancePlanned"
    /\ result' = Deferred_PlannedChangeProto(pc)
    /\ called' = TRUE
    /\ UNCHANGED <<pc, notCatalogVars>>

EmitOutputValue ==
    /\ ~called
    /\ pc.kind = "OutputValue"
    /\ result' = OutputValue_PlannedChangeProto(pc)
    /\ called' = TRUE
    /\ UNCHANGED <<pc, notCatalogVars>>

EmitRootInputValue ==
    /\ ~called
    /\ pc.kind = "RootInputValue"
    /\ result' = RootInputValue_PlannedChangeProto(pc)
    /\ called' = TRUE
    /\ UNCHANGED <<pc, notCatalogVars>>

EmitApplyable ==
    /\ ~called
    /\ pc.kind = "Applyable"
    /\ result' = Applyable_PlannedChangeProto(pc)
    /\ called' = TRUE
    /\ UNCHANGED <<pc, notCatalogVars>>

EmitHeader ==
    /\ ~called
    /\ pc.kind = "Header"
    /\ result' = Header_PlannedChangeProto(pc)
    /\ called' = TRUE
    /\ UNCHANGED <<pc, notCatalogVars>>

EmitPriorStateElement ==
    /\ ~called
    /\ pc.kind = "PriorStateElement"
    /\ result' = PriorStateElement_PlannedChangeProto(pc)
    /\ called' = TRUE
    /\ UNCHANGED <<pc, notCatalogVars>>

EmitPlannedTimestamp ==
    /\ ~called
    /\ pc.kind = "PlannedTimestamp"
    /\ result' = PlannedTimestamp_PlannedChangeProto(pc)
    /\ called' = TRUE
    /\ UNCHANGED <<pc, notCatalogVars>>

Next ==
    \/ EmitComponentInstance
    \/ EmitResourceInstancePlanned
    \/ EmitDeferredResourceInstancePlanned
    \/ EmitOutputValue
    \/ EmitRootInputValue
    \/ EmitApplyable
    \/ EmitHeader
    \/ EmitPriorStateElement
    \/ EmitPlannedTimestamp

Spec == Init /\ [][Next]_vars

(***************************************************************************)
(* Decoding raw records back into events (the loader of the raw plan):     *)
(* every field of a record is read back into the field it was written from.*)
(***************************************************************************)
\* time.Parse(time.RFC3339, s); the empty string is the omitted timestamp
ParseRFC3339(str) ==
    IF str = <<>> THEN zeroTime ELSE [sec |-> str[1], nsec |-> 0]

\* planproto action to plans.Action
ActionFromProto(action) ==
    CASE action = "NOOP" -> "NoOp"
      [] action = "CREATE" -> "Create"
      [] action = "READ" -> "Read"
      [] action = "UPDATE" -> "Update"
      [] action = "DELETE" -> "Delete"
      [] action = "DELETE_THEN_CREATE" -> "DeleteThenCreate"
      [] action = "CREATE_THEN_DELETE" -> "CreateThenDelete"

ModeFromProto(mode) ==
    CASE mode = "NORMAL" -> "NormalMode"
      [] mode = "DESTROY" -> "DestroyMode"
      [] mode = "REFRESH_ONLY" -> "RefreshOnlyMode"

\* planfile.DeferredReasonFromProto
DeferredReasonFromProto(reason) ==
    CASE reason = "planproto.INSTANCE_COUNT_UNKNOWN" -> "InstanceCountUnknown"
      [] reason = "planproto.RESOURCE_CONFIG_UNKNOWN" -> "ResourceConfigUnknown"
      [] reason = "planproto.PROVIDER_CONFIG_UNKNOWN" -> "ProviderConfigUnknown"
      [] reason = "planproto.ABSENT_PREREQ" -> "AbsentPrereq"
      [] reason = "planproto.DEFERRED_PREREQ" -> "DeferredPrereq"
      [] OTHER -> "Invalid"

CheckResultsFromProto(checkResults) ==
    IF checkResults = <<>> THEN <<>>
    ELSE IF checkResults[1] = "PASS" THEN <<"CheckPass">> ELSE <<"CheckFail">>

\* a tfstackdata1.DynamicValue back to a cty.Value, re-marking sensitive paths
DynamicValueFromTFStackData1(dv) ==
    [kind |-> "known", v |-> dv.Value.Msgpack[1],
     mark |-> IF dv.SensitivePaths # <<>> THEN "sensitive" ELSE "none"]

ResourceChangeFromProto(msg) ==
    IF msg = <<>>
    THEN <<>>
    ELSE <<[Addr |-> msg[1].Addr,
            PrevRunAddr |-> msg[1].PrevRunAddr,
            ProviderAddr |-> msg[1].Provider,
            Action |-> ActionFromProto(msg[1].Action),
            Before |-> msg[1].Values[1],
            After |-> msg[1].Values[2],
            BeforeSensitivePaths |-> msg[1].BeforeSensitivePaths,
            AfterSensitivePaths |-> msg[1].AfterSensitivePaths,
            RequiredReplace |-> SeqRange(msg[1].RequiredReplace),
            Importing |-> msg[1].Importing]>>

ResourceInstanceObjectStateFromTFStackData1(msg) ==
    IF msg = <<>>
    THEN <<>>
    ELSE <<[AttrsJSON |-> msg[1].ValueJson, Status |-> "ObjectReady"]>>

DecodeResourceInstancePlanned(msg) ==
    LET ch == ResourceChangeFromProto(msg.Change)
        ps == ResourceInstanceObjectStateFromTFStackData1(msg.PriorState)
    IN  [kind |-> "ResourceInstancePlanned",
         ResourceInstanceObjectAddr |->
             [Component |-> msg.ComponentInstanceAddr,
              ResourceInstance |-> msg.ResourceInstanceAddr,
              DeposedKey |-> msg.DeposedKey],
         ChangeSrc |-> ch,
         PriorStateSrc |-> ps,
         ProviderConfigAddr |-> msg.ProviderConfigAddr,
         Schema |-> SchemaFor(ch, ps)]

DecodeComponentInstance(msg) ==
    [kind |-> "ComponentInstance",
     Addr |-> msg.ComponentInstanceAddr,
     PlanApplyable |-> msg.PlanApplyable,
     PlanComplete |-> msg.PlanComplete,
     Action |-> ActionFromProto(msg.PlannedAction),
     Mode |-> ModeFromProto(msg.Mode),
     RequiredComponents |-> SeqRange(msg.DependsOnComponentAddrs),
     PlannedInputValues |->
         [k \in DOMAIN msg.PlannedInputValues |-> msg.PlannedInputValues[k].Value.Msgpack],
     PlannedInputValueMarks |->
         [k \in {x \in DOMAIN msg.PlannedInputValues :
                     msg.PlannedInputValues[x].SensitivePaths # <<>>} |->
             msg.PlannedInputValues[k].SensitivePaths],
     PlannedOutputValues |->
         [k \in DOMAIN msg.PlannedOutputValues |->
             DynamicValueFromTFStackData1(msg.PlannedOutputValues[k])],
     PlannedCheckResults |-> CheckResultsFromProto(msg.PlannedCheckResults),
     PlanTimestamp |-> ParseRFC3339(msg.PlanTimestamp)]

\* one raw record back to the event it was written from
DecodeRaw(raw) ==
    LET msg == raw.Value
    IN  CASE raw.TypeUrl = "PlanHeader" ->
                 [kind |-> "Header", TerraformVersion |-> msg.TerraformVersion]
          [] raw.TypeUrl = "PlanRootInputValue" ->
                 [kind |-> "RootInputValue",
                  Addr |-> msg.Name,
                  Value |-> IF msg.Value = <<>>
                            THEN NilVal
                            ELSE [kind |-> "known", v |-> msg.Value[1].Msgpack[1],
                                  mark |-> "none"],
                  RequiredOnApply |-> msg.RequiredOnApply]
          [] raw.TypeUrl = "PlanComponentInstance" -> DecodeComponentInstance(msg)
          [] raw.TypeUrl = "PlanResourceInstanceChangePlanned" ->
                 DecodeResourceInstancePlanned(msg)
          [] raw.TypeUrl = "PlanDeferredResourceInstanceChange" ->
                 [kind |-> "DeferredResourceInstancePlanned",
                  ResourceInstancePlanned |-> DecodeResourceInstancePlanned(msg.Change[1]),
                  DeferredReason |-> DeferredReasonFromProto(msg.Deferred.Reason)]
          [] raw.TypeUrl = "PlanPriorStateElem" ->
                 [kind |-> "PriorStateElement", Key |-> msg.Key, Raw |-> msg.Raw]
          [] raw.TypeUrl = "PlanTimestamp" ->
                 [kind |-> "PlannedTimestamp",
                  PlannedTimestamp |-> ParseRFC3339(msg.PlanTimestamp)]
          [] raw.TypeUrl = "PlanApplyable" ->
                 [kind |-> "Applyable", Applyable |-> msg.Applyable]

(***************************************************************************)
(* Properties of the catalog.                                              *)
(***************************************************************************)
IsCalled(kind) == called /\ pc.kind = kind

\* every path of the change has a proto form
PathsEncodable(changeSrc) ==
    \/ changeSrc = <<>>
    \/ BadPath \notin (changeSrc[1].RequiredReplace
                           \cup SeqRange(changeSrc[1].BeforeSensitivePaths)
                           \cup SeqRange(changeSrc[1].AfterSensitivePaths))

\* C1: a ResourceInstancePlanned event with neither a change nor a prior state
\* succeeds with exactly one raw record and no description; the raw record
\* carries the component, resource-instance, deposed-key and provider-config
\* addresses and neither a change nor a prior state.
C1_PlaceholderRawOnly ==
    (IsCalled("ResourceInstancePlanned") /\ pc.ChangeSrc = <<>> /\ pc.PriorStateSrc = <<>>)
        => /\ result.ok
           /\ Len(result.Raw) = 1
           /\ result.Descriptions = <<>>
           /\ result.Raw[1].TypeUrl = "PlanResourceInstanceChangePlanned"
           /\ result.Raw[1].Value.ComponentInstanceAddr = pc.ResourceInstanceObjectAddr.Component
           /\ result.Raw[1].Value.ResourceInstanceAddr = pc.ResourceInstanceObjectAddr.ResourceInstance
           /\ result.Raw[1].Value.DeposedKey = pc.ResourceInstanceObjectAddr.DeposedKey
           /\ result.Raw[1].Value.ProviderConfigAddr = pc.ProviderConfigAddr
           /\ result.Raw[1].Value.Change = <<>>
           /\ result.Raw[1].Value.PriorState = <<>>

C1_Witness ==
    /\ IsCalled("ResourceInstancePlanned")
    /\ pc.ChangeSrc = <<>> /\ pc.PriorStateSrc = <<>>
    /\ pc.ResourceInstanceObjectAddr.DeposedKey = "deposed-1"
    /\ Len(result.Raw) = 1

\* C2: a ResourceInstancePlanned event is described if and only if it has a
\* change.  Emission is aborted only when the change cannot be encoded; every
\* emitted event has exactly one raw record, which carries the prior state
\* when there is one, and has exactly one description when the change is
\* present and none when it is absent.
C2_DescriptionIffChange ==
    IsCalled("ResourceInstancePlanned")
        => /\ result.ok <=> PathsEncodable(pc.ChangeSrc)
           /\ result.ok =>
                /\ Len(result.Raw) = 1
                /\ (pc.ChangeSrc = <<>>) <=> (result.Descriptions = <<>>)
                /\ (pc.ChangeSrc # <<>>) <=> (Len(result.Descriptions) = 1)
                /\ pc.ChangeSrc # <<>> =>
                       result.Descriptions[1].kind = "ResourceInstancePlanned"
                /\ (pc.PriorStateSrc # <<>>) <=> (result.Raw[1].Value.PriorState # <<>>)
                /\ pc.PriorStateSrc # <<>> =>
                       result.Raw[1].Value.PriorState[1].ValueJson = pc.PriorStateSrc[1].AttrsJSON

C2_Witness ==
    /\ IsCalled("ResourceInstancePlanned")
    /\ pc.ChangeSrc = <<>> /\ pc.PriorStateSrc # <<>>
    /\ Len(result.Raw) = 1 /\ result.Descriptions = <<>>
    /\ result.Raw[1].Value.PriorState # <<>>

\* C7: an OutputValue event never contributes a raw record and always emits
\* exactly one description, whatever its action and old and new values.
C7_OutputDescriptionOnly ==
    IsCalled("OutputValue")
        => /\ result.ok
           /\ result.Raw = <<>>
           /\ Len(result.Descriptions) = 1
           /\ result.Descriptions[1].kind = "OutputValuePlanned"
           /\ result.Descriptions[1].OutputValuePlanned.Name = pc.Addr

C7_Witness ==
    /\ IsCalled("OutputValue")
    /\ pc.Action = "DeleteThenCreate"
    /\ pc.OldValue # pc.NewValue
    /\ result.Raw = <<>> /\ Len(result.Descriptions) = 1

\* C8: a RootInputValue event without a plan-time value (an ephemeral
\* variable) emits a raw record holding the variable name and the
\* apply-required flag and no value; a raw record holds a value only when the
\* event carries a plan-time value.
C8_EphemeralValueNotPersisted ==
    IsCalled("RootInputValue")
        => /\ pc.Value = NilVal =>
                /\ result.ok
                /\ Len(result.Raw) = 1
                /\ result.Raw[1].Value.Name = pc.Addr
                /\ result.Raw[1].Value.RequiredOnApply = pc.RequiredOnApply
                /\ result.Raw[1].Value.Value = <<>>
           /\ \A i \in 1 .. Len(result.Raw) :
                  result.Raw[i].Value.Value # <<>> => pc.Value # NilVal

C8_Witness ==
    /\ IsCalled("RootInputValue")
    /\ pc.Value = NilVal /\ pc.RequiredOnApply
    /\ Len(result.Raw) = 1 /\ result.Raw[1].Value.Value = <<>>

\* C9: a RootInputValue event emits exactly one raw record, and a description
\* naming the variable if and only if the apply-required flag is set.
\* Emission is aborted only when the plan-time value cannot be encoded.
C9_DescriptionIffRequiredOnApply ==
    IsCalled("RootInputValue")
        => /\ result.ok <=> pc.Value.mark = "none"
           /\ result.ok =>
                /\ Len(result.Raw) = 1
                /\ result.Raw[1].TypeUrl = "PlanRootInputValue"
                /\ pc.RequiredOnApply <=> (result.Descriptions # <<>>)
                /\ pc.RequiredOnApply =>
                       result.Descriptions =
                           <<[kind |-> "ApplyTimeInputVariable", Name |-> pc.Addr]>>

C9_Witness ==
    /\ IsCalled("RootInputValue")
    /\ ~pc.RequiredOnApply /\ pc.Value # NilVal
    /\ Len(result.Raw) = 1 /\ result.Descriptions = <<>>

\* C10: an Applyable event emits exactly one raw record and exactly one
\* description, and the boolean of the description is the boolean of the raw
\* record, for true and for false.
C10_ApplyableSameBoolean ==
    IsCalled("Applyable")
        => /\ result.ok
           /\ Len(result.Raw) = 1
           /\ Len(result.Descriptions) = 1
           /\ result.Raw[1].Value.Applyable = pc.Applyable
           /\ result.Descriptions[1].PlanApplyable = result.Raw[1].Value.Applyable

C10_Witness ==
    /\ IsCalled("Applyable")
    /\ ~pc.Applyable
    /\ Len(result.Raw) = 1 /\ Len(result.Descriptions) = 1
    /\ result.Descriptions[1].PlanApplyable = FALSE

\* the value at a path of an encoded object replaced by v
WithValueAt(dv, path, v) == [dv EXCEPT ![PathIndex(path)] = v]

\* the events that differ from e at most in the value stored at one path that
\* e marks sensitive
SensitiveVariants(e) ==
    CASE e.kind = "OutputValue" ->
             {[e EXCEPT !.OldValue = WithValueAt(@, p, v)] :
                 p \in IF e.OldValue = EncodedNull THEN {}
                       ELSE SeqRange(e.OldValueSensitivePaths), v \in Vals}
             \cup
             {[e EXCEPT !.NewValue = WithValueAt(@, p, v)] :
                 p \in IF e.NewValue = EncodedNull THEN {}
                       ELSE SeqRange(e.NewValueSensitivePaths), v \in Vals}
      [] e.kind = "ResourceInstancePlanned" /\ e.ChangeSrc # <<>> ->
             {[e EXCEPT !.ChangeSrc[1].Before = WithValueAt(@, p, v)] :
                 p \in IF e.ChangeSrc[1].Before = EncodedNull THEN {}
                       ELSE SeqRange(e.ChangeSrc[1].BeforeSensitivePaths), v \in Vals}
             \cup
             {[e EXCEPT !.ChangeSrc[1].After = WithValueAt(@, p, v)] :
                 p \in IF e.ChangeSrc[1].After = EncodedNull THEN {}
                       ELSE SeqRange(e.ChangeSrc[1].AfterSensitivePaths), v \in Vals}
      [] OTHER -> {}

PlannedChangeProto(e) ==
    CASE e.kind = "OutputValue" -> OutputValue_PlannedChangeProto(e)
      [] e.kind = "ResourceInstancePlanned" -> ResourceInstancePlanned_PlannedChangeProto(e)
      [] e.kind = "DeferredResourceInstancePlanned" -> Deferred_PlannedChangeProto(e)
      [] e.kind = "ComponentInstance" -> ComponentInstance_PlannedChangeProto(e)
      [] e.kind = "RootInputValue" -> RootInputValue_PlannedChangeProto(e)
      [] e.kind = "Header" -> Header_PlannedChangeProto(e)
      [] e.kind = "PriorStateElement" -> PriorStateElement_PlannedChangeProto(e)
      [] e.kind = "PlannedTimestamp" -> PlannedTimestamp_PlannedChangeProto(e)
      [] e.kind = "Applyable" -> Applyable_PlannedChangeProto(e)

\* C3: the description of an event never contains the literal value at a path
\* marked sensitive: two ResourceInstancePlanned, DeferredResourceInstancePlanned
\* or OutputValue events that differ only in the value stored at a sensitive
\* path have identical descriptions.
C3_SensitiveValueNotInDescription ==
    /\ (IsCalled("OutputValue") \/ IsCalled("ResourceInstancePlanned"))
           => \A e2 \in SensitiveVariants(pc) :
                  PlannedChangeProto(e2).Descriptions = result.Descriptions
    /\ IsCalled("DeferredResourceInstancePlanned")
           => \A i2 \in SensitiveVariants(pc.ResourceInstancePlanned) :
                  PlannedChangeProto([pc EXCEPT !.ResourceInstancePlanned = i2]).Descriptions
                      = result.Descriptions

\* what a decoded event can still tell: a timestamp keeps its whole seconds,
\* and a deferral reason outside the recognised set is the invalid reason
Truncated(t) == [t EXCEPT !.nsec = 0]

Normalized(e) ==
    CASE e.kind = "PlannedTimestamp" ->
             [e EXCEPT !.PlannedTimestamp = Truncated(@)]
      [] e.kind = "ComponentInstance" ->
             [e EXCEPT !.PlanTimestamp = Truncated(@)]
      [] e.kind = "DeferredResourceInstancePlanned" ->
             [e EXCEPT !.DeferredReason = IF @ \in RecognisedReasons THEN @ ELSE "Invalid"]
      [] OTHER -> e

EmitsRaw == called /\ result.ok /\ result.Raw # <<>>

RawReasonMember(reason) ==
    CASE reason = "InstanceCountUnknown" -> "planproto.INSTANCE_COUNT_UNKNOWN"
      [] reason = "ResourceConfigUnknown" -> "planproto.RESOURCE_CONFIG_UNKNOWN"
      [] reason = "ProviderConfigUnknown" -> "planproto.PROVIDER_CONFIG_UNKNOWN"
      [] reason = "AbsentPrereq" -> "planproto.ABSENT_PREREQ"
      [] reason = "DeferredPrereq" -> "planproto.DEFERRED_PREREQ"

DescribedReasonMember(reason) ==
    CASE reason = "InstanceCountUnknown" -> "INSTANCE_COUNT_UNKNOWN"
      [] reason = "ResourceConfigUnknown" -> "RESOURCE_CONFIG_UNKNOWN"
      [] reason = "ProviderConfigUnknown" -> "PROVIDER_CONFIG_UNKNOWN"
      [] reason = "AbsentPrereq" -> "ABSENT_PREREQ"
      [] reason = "DeferredPrereq" -> "DEFERRED_PREREQ"

\* C5: emitting a DeferredResourceInstancePlanned event never fails because of
\* its reason; a recognised reason is recorded as its own enumeration member,
\* in the raw record and in the description, and decodes back to itself; any
\* other reason is recorded as the invalid member.
C5_ReasonNeverFails ==
    IsCalled("DeferredResourceInstancePlanned")
        => /\ \A r \in DeferredReasons :
                  Deferred_PlannedChangeProto([pc EXCEPT !.DeferredReason = r]).ok = result.ok
           /\ result.ok <=> PathsEncodable(pc.ResourceInstancePlanned.ChangeSrc)
           /\ (result.ok /\ pc.DeferredReason \in RecognisedReasons) =>
                /\ result.Raw[1].Value.Deferred.Reason = RawReasonMember(pc.DeferredReason)
                /\ result.Descriptions[1].Deferred.Reason = DescribedReasonMember(pc.DeferredReason)
                /\ DeferredReasonFromProto(result.Raw[1].Value.Deferred.Reason) = pc.DeferredReason
           /\ (result.ok /\ pc.DeferredReason \notin RecognisedReasons) =>
                /\ result.Raw[1].Value.Deferred.Reason = "planproto.INVALID"
                /\ result.Descriptions[1].Deferred.Reason = "INVALID"
                /\ DeferredReasonFromProto(result.Raw[1].Value.Deferred.Reason) = "Invalid"

C5_Witness ==
    /\ IsCalled("DeferredResourceInstancePlanned")
    /\ pc.DeferredReason = "FutureReason"
    /\ result.ok
    /\ result.Raw[1].Value.Deferred.Reason = "planproto.INVALID"
    /\ result.Descriptions[1].Deferred.Reason = "INVALID"

\* C6: a DeferredResourceInstancePlanned event emits exactly one raw record,
\* embedding the resource-instance record the wrapped event emits on its own
\* together with the reason, and exactly one deferred description, carrying
\* the resource summary of the wrapped event's own description together with
\* the reason; when the wrapped event has no change the summary is absent.
\* Emission is aborted exactly when the wrapped event's own emission is.
C6_DeferredWrapsResourceInstance ==
    IsCalled("DeferredResourceInstancePlanned")
        => LET wrapped == ResourceInstancePlanned_PlannedChangeProto(pc.ResourceInstancePlanned)
           IN  /\ result.ok <=> wrapped.ok
               /\ result.ok =>
                    /\ Len(result.Raw) = 1
                    /\ result.Raw[1].TypeUrl = "PlanDeferredResourceInstanceChange"
                    /\ result.Raw[1].Value.Change = <<wrapped.Raw[1].Value>>
                    /\ DeferredReasonFromProto(result.Raw[1].Value.Deferred.Reason)
                           = Normalized(pc).DeferredReason
                    /\ Len(result.Descriptions) = 1
                    /\ result.Descriptions[1].kind = "ResourceInstanceDeferred"
                    /\ result.Descriptions[1].ResourceInstance =
                           [i \in 1 .. Len(wrapped.Descriptions) |->
                               wrapped.Descriptions[i].ResourceInstancePlanned]
                    /\ (pc.ResourceInstancePlanned.ChangeSrc = <<>>)
                           <=> (result.Descriptions[1].ResourceInstance = <<>>)
                    /\ result.Descriptions[1].Deferred.Reason =
                           IF pc.DeferredReason \in RecognisedReasons
                           THEN DescribedReasonMember(pc.DeferredReason)
                           ELSE "INVALID"

C6_Witness ==
    /\ IsCalled("DeferredResourceInstancePlanned")
    /\ pc.ResourceInstancePlanned.ChangeSrc = <<>>
    /\ pc.ResourceInstancePlanned.PriorStateSrc # <<>>
    /\ pc.DeferredReason = "ProviderConfigUnknown"
    /\ result.ok
    /\ Len(result.Raw) = 1 /\ Len(result.Descriptions) = 1
    /\ result.Descriptions[1].ResourceInstance = <<>>

\* C11: Header, PriorStateElement and PlannedTimestamp events are raw only.
\* Emission is aborted only when the record itself cannot be marshalled (a
\* prior-state key that is not valid UTF-8); every emitted event has exactly
\* one raw record, of the message type of its variant, and no description.
RawOnlyKinds == {"Header", "PriorStateElement", "PlannedTimestamp"}

RawOnlyTypeUrl(kind) ==
    CASE kind = "Header" -> "PlanHeader"
      [] kind = "PriorStateElement" -> "PlanPriorStateElem"
      [] kind = "PlannedTimestamp" -> "PlanTimestamp"

C11_RawOnlyVariants ==
    (called /\ pc.kind \in RawOnlyKinds)
        => /\ result.ok <=> (pc.kind = "PriorStateElement" => ValidUTF8(pc.Key))
           /\ result.ok =>
                /\ Len(result.Raw) = 1
                /\ result.Raw[1].TypeUrl = RawOnlyTypeUrl(pc.kind)
                /\ result.Descriptions = <<>>

C11_Witness ==
    /\ IsCalled("PlannedTimestamp")
    /\ pc.PlannedTimestamp # zeroTime
    /\ Len(result.Raw) = 1 /\ result.Descriptions = <<>>
    /\ result.Raw[1].Value.PlanTimestamp = FormatRFC3339(pc.PlannedTimestamp)

\* the inputs on which an inner dynamic value, an inner path or the record
\* as a whole has no encoded form
EncodingFails(e) ==
    CASE e.kind = "RootInputValue" ->
             e.Value # NilVal /\ e.Value.mark # "none"
      [] e.kind = "ComponentInstance" ->
             \/ \E k \in DOMAIN e.PlannedInputValues :
                    /\ k \in DOMAIN e.PlannedInputValueMarks
                    /\ BadPath \in SeqRange(e.PlannedInputValueMarks[k])
             \/ \E k \in DOMAIN e.PlannedOutputValues :
                    e.PlannedOutputValues[k].mark = "other"
      [] e.kind = "ResourceInstancePlanned" -> ~PathsEncodable(e.ChangeSrc)
      [] e.kind = "DeferredResourceInstancePlanned" ->
             ~PathsEncodable(e.ResourceInstancePlanned.ChangeSrc)
      [] e.kind = "PriorStateElement" -> ~ValidUTF8(e.Key)
      [] OTHER -> FALSE

\* C12: for every variant, when the encoding of an inner dynamic value or of
\* the whole record fails, PlannedChangeProto returns an error and no event:
\* no raw record and no description.  Nothing is ever returned next to an
\* error.
C12_EncodingFailureAbortsEmission ==
    called
        => /\ EncodingFails(pc) =>
                /\ ~result.ok
                /\ result.err # ""
                /\ result.Raw = <<>>
                /\ result.Descriptions = <<>>
           /\ ~result.ok => (result.Raw = <<>> /\ result.Descriptions = <<>>)

C12_Witness ==
    /\ IsCalled("ComponentInstance")
    /\ \E k \in DOMAIN pc.PlannedOutputValues : pc.PlannedOutputValues[k].mark = "other"
    /\ ~result.ok /\ result.Raw = <<>> /\ result.Descriptions = <<>>

(***************************************************************************)
(* planfile.Create and planfile.CreateJson: writing the plan artifact.     *)
(*                                                                         *)
(* A file on disk is NoFile or a record of the zip entries it holds; a     *)
(* JSON plan is a file with the single entry "json".  The zip writer       *)
(* buffers and its deferred Close writes the entries created so far and    *)
(* the central directory to the file, on every return after os.Create.     *)
(***************************************************************************)
Filenames == {"tfplan.out", "other.out"}

NoFile == [exists |-> FALSE, entries |-> <<>>]

\* the result of os.Create: the file exists and is empty
EmptyFile == [exists |-> TRUE, entries |-> <<>>]

tfplanFilename == "tfplan"

tfstateFilename == "tfstate"

tfconfigFilename == "tfconfig"

\* the plan to persist: its serialization encodes the variable value
Plans == [VariableValue : CtyValues \ {NilVal}]

StateFiles == {"state-serial-1", "state-unwritable"}

ConfigSnaps == {"snapshot-1", "snapshot-unwritable"}

\* writeTfplan(plan, w): serializes the plan and writes it to the entry
writeTfplan(plan) ==
    LET enc == NewDynamicValue(plan.VariableValue)
    IN  IF enc.ok THEN [ok |-> TRUE, data |-> enc.dv]
        ELSE [ok |-> FALSE, data |-> <<>>]

\* statefile.Write(stateFile, w)
statefileWrite(stateFile) ==
    IF stateFile = "state-unwritable" THEN [ok |-> FALSE, data |-> <<>>]
    ELSE [ok |-> TRUE, data |-> <<stateFile>>]

\* writeConfigSnapshot(configSnap, zw)
writeConfigSnapshot(configSnap) ==
    IF configSnap = "snapshot-unwritable" THEN [ok |-> FALSE, data |-> <<>>]
    ELSE [ok |-> TRUE, data |-> <<configSnap>>]

\* jsonplan.Marshal(config, plan, stateFile, schemas)
jsonplanMarshal(plan, stateFile) ==
    LET enc == NewDynamicValue(plan.VariableValue)
    IN  IF enc.ok /\ statefileWrite(stateFile).ok
        THEN [ok |-> TRUE, data |-> enc.dv \o <<stateFile>>]
        ELSE [ok |-> FALSE, data |-> <<>>]

\* an artifact left by an earlier, successful run
OldArtifact ==
    [exists |-> TRUE,
     entries |-> <<[Name |-> tfplanFilename, Data |-> <<0>>],
                   [Name |-> tfstateFilename, Data |-> <<"state-serial-0">>],
                   [Name |-> tfconfigFilename, Data |-> <<"snapshot-0">>]>>]

CreateCalls ==
    [fn : {"Create", "CreateJson"}, filename : Filenames, plan : Plans,
     stateFile : StateFiles, configSnap : ConfigSnaps,
     \* whether the operating system refuses to create the file
     createFails : BOOLEAN]

InitCreate ==
    /\ files \in [Filenames -> {NoFile, OldArtifact}]
    /\ call \in CreateCalls
    /\ createAt = "start"
    /\ ret = ""
    /\ zw = <<>>
    /\ CatalogIdle
    /\ WalkIdle
    /\ EvalIdle
    /\ ChecksIdle
    /\ SliceIdle

\* the deferred zw.Close() and f.Close(): the entries created so far reach
\* the file
Closed(filename, entries) ==
    [files EXCEPT ![filename] = [exists |-> TRUE, entries |-> entries]]

\* f, err := os.Create(filename); zw := zip.NewWriter(f)
CreateOpen ==
    /\ createAt = "start"
    /\ call.fn = "Create"
    /\ IF call.createFails
       THEN /\ createAt' = "returned"
            /\ ret' = "open: permission denied"
            /\ UNCHANGED files
       ELSE /\ createAt' = "tfplan"
            /\ files' = [files EXCEPT ![call.filename] = EmptyFile]
            /\ UNCHANGED ret
    /\ UNCHANGED <<call, zw, notCreateVars>>

\* the tfplan entry: zw.CreateHeader, then writeTfplan(plan, w)
CreateTfplan ==
    /\ createAt = "tfplan"
    /\ LET w == writeTfplan(call.plan)
           entry == [Name |-> tfplanFilename, Data |-> w.data]
       IN  IF ~w.ok
           THEN /\ createAt' = "returned"
                /\ ret' = "failed to write plan"
                /\ files' = Closed(call.filename, Append(zw, entry))
                /\ UNCHANGED zw
           ELSE /\ createAt' = "tfstate"
                /\ zw' = Append(zw, entry)
                /\ UNCHANGED <<files, ret>>
    /\ UNCHANGED <<call, notCreateVars>>

\* the tfstate entry: zw.CreateHeader, then statefile.Write(stateFile, w)
CreateTfstate ==
    /\ createAt = "tfstate"
    /\ LET w == statefileWrite(call.stateFile)
           entry == [Name |-> tfstateFilename, Data |-> w.data]
       IN  IF ~w.ok
           THEN /\ createAt' = "returned"
                /\ ret' = "failed to write state snapshot"
                /\ files' = Closed(call.filename, Append(zw, entry))
                /\ UNCHANGED zw
           ELSE /\ createAt' = "tfconfig"
                /\ zw' = Append(zw, entry)
                /\ UNCHANGED <<files, ret>>
    /\ UNCHANGED <<call, notCreateVars>>

\* the tfconfig directory: writeConfigSnapshot(configSnap, zw), return nil
CreateConfigSnapshot ==
    /\ createAt = "tfconfig"
    /\ LET w == writeConfigSnapshot(call.configSnap)
           entry == [Name |-> tfconfigFilename, Data |-> w.data]
       IN  IF ~w.ok
           THEN /\ ret' = "failed to write config snapshot"
                /\ files' = Closed(call.filename, zw)
                /\ UNCHANGED zw
           ELSE /\ ret' = ""
                /\ zw' = Append(zw, entry)
                /\ files' = Closed(call.filename, Append(zw, entry))
    /\ createAt' = "returned"
    /\ UNCHANGED <<call, notCreateVars>>

\* CreateJson: os.Create, jsonplan.Marshal, f.Write
CreateJson ==
    /\ createAt = "start"
    /\ call.fn = "CreateJson"
    /\ LET b == jsonplanMarshal(call.plan, call.stateFile)
       IN  IF call.createFails
           THEN /\ ret' = "open: permission denied"
                /\ UNCHANGED files
           ELSE IF ~b.ok
           THEN /\ ret' = "failed to marshal tfplan as JSON"
                /\ files' = [files EXCEPT ![call.filename] = EmptyFile]
           ELSE /\ ret' = ""
                /\ files' = [files EXCEPT ![call.filename] =
                                [exists |-> TRUE,
                                 entries |-> <<[Name |-> "json", Data |-> b.data]>>]]
    /\ createAt' = "returned"
    /\ UNCHANGED <<call, zw, notCreateVars>>

NextCreate ==
    \/ CreateOpen
    \/ CreateTfplan
    \/ CreateTfstate
    \/ CreateConfigSnapshot
    \/ CreateJson

SpecCreate == InitCreate /\ [][NextCreate]_vars

\* a plan artifact that can be loaded: the plan, the state snapshot and the
\* configuration snapshot, each written in full
CompleteArtifact(file) ==
    /\ file.exists
    /\ Len(file.entries) = 3
    /\ file.entries[1].Name = tfplanFilename /\ file.entries[1].Data # <<>>
    /\ file.entries[2].Name = tfstateFilename /\ file.entries[2].Data # <<>>
    /\ file.entries[3].Name = tfconfigFilename /\ file.entries[3].Data # <<>>

\* a file that is there and is not a whole plan artifact
PartialArtifact(file) == file.exists /\ ~CompleteArtifact(file)

\* C13: when the serialization of the plan fails while Create builds the
\* artifact, Create returns an error and no partial artifact is left at the
\* target filename.
C13_NoPartialArtifactOnFailure ==
    (/\ createAt = "returned"
     /\ call.fn = "Create"
     /\ ~call.createFails
     /\ ~writeTfplan(call.plan).ok)
        => /\ ret # ""
           /\ ~PartialArtifact(files[call.filename])

(***************************************************************************)
(* The plan stream.  The walk visits the objects, one worker per object,   *)
(* a bounded number of them at a time; an object is visited once every     *)
(* object it depends on has been visited.  Every worker appends the events *)
(* of its object to the one append-only stream, the header goes first and  *)
(* the Applyable event last.  The walk can be cancelled at any moment.     *)
(* The raw records of the stream are later loaded for apply.               *)
(***************************************************************************)
\* how many workers run at once
MaxWorkers == 2

\* the objects, in an order in which each can depend only on earlier ones
WalkObjects == <<"component.net", "component.db", "component.web">>

\* the acyclic dependency relations: for each object the objects it requires
DepGraphs ==
    {g \in [SeqRange(WalkObjects) -> SUBSET SeqRange(ComponentAddrs)] :
        \A i \in 1 .. Len(WalkObjects) :
            g[WalkObjects[i]] \subseteq {WalkObjects[j] : j \in 1 .. (i - 1)}}

\* the objects o depends on, directly or through another object
TransitiveDeps(g, o) == g[o] \cup UNION {g[d] : d \in g[o]}

\* the events of the visit of object o
ComponentInstanceEvent(g, o) ==
    [BaseComponentInstance EXCEPT !.Addr = o, !.RequiredComponents = g[o]]

ResourceInstanceEvent(o) ==
    [kind |-> "ResourceInstancePlanned",
     ResourceInstanceObjectAddr |->
         [Component |-> o,
          ResourceInstance |-> CHOOSE a \in ResourceInstanceAddrs : TRUE,
          DeposedKey |-> "current"],
     ChangeSrc |-> <<BaseChange>>,
     PriorStateSrc |-> <<>>,
     ProviderConfigAddr |-> CHOOSE a \in ProviderConfigAddrs : TRUE,
     Schema |-> SchemaFor(<<BaseChange>>, <<>>)]

EventsOf(g, o) == <<ComponentInstanceEvent(g, o), ResourceInstanceEvent(o)>>

HeaderEvent == [kind |-> "Header", TerraformVersion |-> CHOOSE v \in Versions : TRUE]

\* the plan as a whole, for the events that belong to no object
ThePlan == "(plan)"

\* one element of the stream: the event, the object it is about and what its
\* PlannedChangeProto returned
Emitted(o, e) == [obj |-> o, event |-> e, change |-> PlannedChangeProto(e)]

RECURSIVE RawsOf(_)
\* the raw records of the events, in stream order
RawsOf(events) ==
    IF events = <<>> THEN <<>>
    ELSE events[1].change.Raw \o RawsOf(Tail(events))

NotLoaded == [done |-> FALSE]

\* stackplan.LoadFromProto: the plan the raw records describe.  Without a
\* header record the records are not a plan; the plan is applyable when its
\* last Applyable record says so.
LoadFromProto(raws) ==
    LET headers == {i \in 1 .. Len(raws) : raws[i].TypeUrl = "PlanHeader"}
        applyables == {i \in 1 .. Len(raws) : raws[i].TypeUrl = "PlanApplyable"}
        last == CHOOSE i \in applyables : \A j \in applyables : j <= i
    IN  IF headers = {}
        THEN [done |-> TRUE, input |-> raws, ok |-> FALSE,
              err |-> "not a valid plan", Applyable |-> FALSE, Changes |-> <<>>]
        ELSE [done |-> TRUE, input |-> raws, ok |-> TRUE, err |-> "",
              Applyable |-> IF applyables = {} THEN FALSE
                            ELSE raws[last].Value.Applyable,
              Changes |-> [i \in 1 .. Len(raws) |-> DecodeRaw(raws[i])]]

\* apply is allowed only for a plan that loaded and is applyable
MayApply(plan) == plan.done /\ plan.ok /\ plan.Applyable

InitWalk ==
    /\ stream = <<>>
    /\ deps \in DepGraphs
    /\ workers = [o \in SeqRange(WalkObjects) |-> [state |-> "waiting", emitted |-> 0]]
    /\ walk = "starting"
    /\ loaded = NotLoaded
    /\ CatalogIdle
    /\ CreateIdle
    /\ EvalIdle
    /\ ChecksIdle
    /\ SliceIdle

\* the header is emitted before any object is visited
WalkStart ==
    /\ walk = "starting"
    /\ stream' = Append(stream, Emitted(ThePlan, HeaderEvent))
    /\ walk' = "walking"
    /\ UNCHANGED <<deps, workers, loaded, notWalkVars>>

\* variant: a worker starts without waiting for the objects its object
\* depends on
WorkerStart_IgnoringDependencies(o) ==
    /\ walk = "walking"
    /\ workers[o].state = "waiting"
    /\ Cardinality({w \in DOMAIN workers : workers[w].state = "running"}) < MaxWorkers
    /\ workers' = [workers EXCEPT ![o].state = "running"]
    /\ UNCHANGED <<stream, deps, walk, loaded, notWalkVars>>

\* a worker takes an object whose dependencies have all been visited
WorkerStart(o) ==
    /\ walk = "walking"
    /\ workers[o].state = "waiting"
    /\ \A d \in deps[o] : workers[d].state = "done"
    /\ Cardinality({w \in DOMAIN workers : workers[w].state = "running"}) < MaxWorkers
    /\ workers' = [workers EXCEPT ![o].state = "running"]
    /\ UNCHANGED <<stream, deps, walk, loaded, notWalkVars>>

\* the worker of o appends the next event of o to the stream
WorkerEmit(o) ==
    /\ walk = "walking"
    /\ workers[o].state = "running"
    /\ workers[o].emitted < Len(EventsOf(deps, o))
    /\ stream' = Append(stream, Emitted(o, EventsOf(deps, o)[workers[o].emitted + 1]))
    /\ workers' = [workers EXCEPT ![o].emitted = @ + 1]
    /\ UNCHANGED <<deps, walk, loaded, notWalkVars>>

\* the visit of o is over
WorkerFinish(o) ==
    /\ walk = "walking"
    /\ workers[o].state = "running"
    /\ workers[o].emitted = Len(EventsOf(deps, o))
    /\ workers' = [workers EXCEPT ![o].state = "done"]
    /\ UNCHANGED <<stream, deps, walk, loaded, notWalkVars>>

\* every object was visited: the Applyable event closes the stream; the plan
\* is applyable unless the walk produced error diagnostics
WalkFinish ==
    /\ walk = "walking"
    /\ \A o \in DOMAIN workers : workers[o].state = "done"
    /\ \E hasErrors \in BOOLEAN :
           stream' = Append(stream,
                            Emitted(ThePlan, [kind |-> "Applyable",
                                              Applyable |-> ~hasErrors]))
    /\ walk' = "finished"
    /\ UNCHANGED <<deps, workers, loaded, notWalkVars>>

\* cancellation: nothing more is appended
WalkCancel ==
    /\ walk \in {"starting", "walking"}
    /\ walk' = "cancelled"
    /\ UNCHANGED <<stream, deps, workers, loaded, notWalkVars>>

\* the caller hands raw records to the loader: the records of the stream as
\* collected, or records among which there is no header
LoadForApply ==
    /\ walk \in {"finished", "cancelled"}
    /\ ~loaded.done
    /\ \E verbatim \in BOOLEAN :
           loaded' = LoadFromProto(
                         IF verbatim THEN RawsOf(stream)
                         ELSE SelectSeq(RawsOf(stream),
                                        LAMBDA r : r.TypeUrl # "PlanHeader"))
    /\ UNCHANGED <<stream, deps, workers, walk, notWalkVars>>

NextWalk ==
    \/ WalkStart
    \/ \E o \in SeqRange(WalkObjects) : WorkerStart(o)
    \/ \E o \in SeqRange(WalkObjects) : WorkerEmit(o)
    \/ \E o \in SeqRange(WalkObjects) : WorkerFinish(o)
    \/ WalkFinish
    \/ WalkCancel
    \/ LoadForApply

SpecWalk == InitWalk /\ [][NextWalk]_vars

C15_CancelledStreamNotApplyable ==
    /\ walk = "cancelled" =>
           /\ \A i \in 1 .. Len(stream) :
                  /\ stream[i].change.ok
                  /\ stream[i].event.kind # "Applyable"
                  /\ \A k \in 1 .. Len(stream[i].change.Raw) :
                         DecodeRaw(stream[i].change.Raw[k]) = stream[i].event
           /\ stream # <<>> =>
                  /\ LoadFromProto(RawsOf(stream)).ok
                  /\ Len(LoadFromProto(RawsOf(stream)).Changes) = Len(stream)
                  /\ ~MayApply(LoadFromProto(RawsOf(stream)))
    /\ (loaded.done /\ ~\E i \in 1 .. Len(loaded.input) :
                           /\ loaded.input[i].TypeUrl = "PlanApplyable"
                           /\ loaded.input[i].Value.Applyable)
           => ~MayApply(loaded)

C15_Witness ==
    /\ walk = "cancelled"
    /\ Len(stream) >= 3
    /\ \E i \in 1 .. Len(stream) :
           stream[i].event.kind = "ComponentInstance"
               /\ stream[i].event.RequiredComponents # {}
    /\ loaded.done /\ loaded.ok /\ ~MayApply(loaded)
    /\ Len(loaded.Changes) = Len(stream)

\* C16: in every interleaving of the workers the order of the stream is
\* consistent with the dependency order: when object B depends on object A,
\* directly or not, every event of A is before every event of B.
C16_StreamOrderRespectsDependencies ==
    \A i \in 1 .. Len(stream) : \A j \in 1 .. Len(stream) :
        (/\ stream[i].obj # ThePlan
         /\ stream[j].obj # ThePlan
         /\ stream[j].obj \in TransitiveDeps(deps, stream[i].obj))
            => j < i

\* a dependent pair was emitted in order while the events of two unrelated
\* objects interleave
C16_Witness ==
    /\ \E i \in 1 .. Len(stream) : \E j \in 1 .. Len(stream) :
           /\ stream[i].obj # ThePlan /\ stream[j].obj # ThePlan
           /\ stream[j].obj \in deps[stream[i].obj]
           /\ j < i
    /\ \E i \in 1 .. Len(stream) : \E j \in 1 .. Len(stream) : \E k \in 1 .. Len(stream) :
           /\ i < j /\ j < k
           /\ stream[i].obj = stream[k].obj
           /\ stream[j].obj # stream[i].obj
           /\ stream[i].obj # ThePlan /\ stream[j].obj # ThePlan
           /\ stream[i].obj \notin TransitiveDeps(deps, stream[j].obj)
           /\ stream[j].obj \notin TransitiveDeps(deps, stream[i].obj)

(***************************************************************************)
(* The check evaluator: evalCheckRule with validateCheckRule and           *)
(* evalCheckErrorMessage (internal/terraform/eval_conditions.go).          *)
(*                                                                         *)
(* A cty value is its type, whether it is known, null or unknown, its      *)
(* payload in text form and whether it carries the sensitive mark.  An     *)
(* expression is the value it evaluates to in the rule's scope, or a       *)
(* failure to evaluate.  A diagnostic is its severity, summary and detail; *)
(* a summary is the sequence of its parts: one part for a fixed text, two  *)
(* for a text made with Sprintf.                                           *)
(***************************************************************************)
CheckRuleTypes ==
    {"ResourcePrecondition", "ResourcePostcondition", "OutputPrecondition",
     "CheckAssertion"}

\* addrs.CheckRuleType.Description
Description(typ) ==
    CASE typ = "ResourcePrecondition" -> "Resource precondition"
      [] typ = "ResourcePostcondition" -> "Resource postcondition"
      [] typ = "OutputPrecondition" -> "Module output value precondition"
      [] typ = "CheckAssertion" -> "Check block assertion"

DiagError == "Error"

DiagWarning == "Warning"

Severities == {DiagError, DiagWarning}

Diagnostic(severity, summary, detail) ==
    [Severity |-> severity, Summary |-> summary, Detail |-> detail]

\* tfdiags.Diagnostics.HasErrors
HasErrors(diags) == \E i \in 1 .. Len(diags) : diags[i].Severity = DiagError

CtyTypes == {"bool", "string", "number", "list"}

\* the known, non-null values the expressions evaluate to
KnownPayloads ==
    {<<"bool", "true">>, <<"bool", "false">>, <<"string", "true">>,
     <<"string", "positive number">>, <<"string", "  positive number ">>,
     <<"number", "0">>, <<"list", "[]">>}

EvalValues ==
    {[type |-> kp[1], state |-> "known", v |-> kp[2], sensitive |-> m] :
        kp \in KnownPayloads, m \in BOOLEAN}
    \cup [type : CtyTypes, state : {"null", "unknown"}, v : {""}, sensitive : BOOLEAN]

\* cty.DynamicVal, the value of an expression that failed to evaluate
DynamicVal == [type |-> "dynamic", state |-> "unknown", v |-> "", sensitive |-> FALSE]

Expressions ==
    [value : EvalValues, evalError : {FALSE}]
        \cup {[value |-> DynamicVal, evalError |-> TRUE]}

\* the references of the rule's expressions
ReferenceLists == {<<>>, <<"var.x">>}

CheckRules == [Condition : Expressions, ErrorMessage : Expressions, Refs : ReferenceLists]

\* the arguments of evalCheckRule; scopeFails says that building the
\* evaluation context for the references reports an error
CheckCalls ==
    [typ : CheckRuleTypes, rule : CheckRules, severity : Severities,
     scopeFails : BOOLEAN]

\* expr.Value(hclCtx)
ExprValue(expr) ==
    IF expr.evalError
    THEN [val |-> DynamicVal,
          diags |-> <<Diagnostic(DiagError, <<"Invalid expression">>, "evaluation failed")>>]
    ELSE [val |-> expr.value, diags |-> <<>>]

\* convert.Convert(val, ty) for ty bool or string: the conversion is chosen by
\* the type, a null or unknown value converts to null or unknown of ty, marks
\* are kept
Convert(val, ty) ==
    CASE val.type = ty -> [ok |-> TRUE, val |-> val]
      [] ty = "bool" /\ val.type = "string" ->
             IF val.state # "known" THEN [ok |-> TRUE, val |-> [val EXCEPT !.type = "bool"]]
             ELSE IF val.v \in {"true", "false"}
             THEN [ok |-> TRUE, val |-> [val EXCEPT !.type = "bool"]]
             ELSE [ok |-> FALSE, val |-> val]
      [] ty = "string" /\ val.type \in {"bool", "number"} ->
             [ok |-> TRUE, val |-> [val EXCEPT !.type = "string"]]
      [] OTHER -> [ok |-> FALSE, val |-> val]

\* strings.TrimSpace
TrimSpace(str) == IF str = "  positive number " THEN "positive number" ELSE str

SensitiveMessageWarning ==
    Diagnostic(DiagWarning, <<"Error message refers to sensitive values">>,
               "Terraform will not display the resulting message")

\* variant: an unusable error message is reported as a warning
evalCheckErrorMessage_DefectsAsWarnings(expr) ==
    LET ev == ExprValue(expr)
        conv == Convert(ev.val, "string")
    IN  IF HasErrors(ev.diags)
        THEN [msg |-> "", diags |-> ev.diags]
        ELSE IF ~conv.ok
        THEN [msg |-> "",
              diags |-> <<Diagnostic(DiagWarning, <<"Invalid error message">>,
                                     "Unsuitable value for error message")>>]
        ELSE IF conv.val.state = "unknown"
        THEN [msg |-> "", diags |-> <<>>]
        ELSE IF conv.val.state = "null"
        THEN [msg |-> "",
              diags |-> <<Diagnostic(DiagWarning, <<"Invalid error message">>,
                                     "must not be null")>>]
        ELSE IF conv.val.sensitive
        THEN [msg |-> "", diags |-> <<SensitiveMessageWarning>>]
        ELSE [msg |-> TrimSpace(conv.val.v), diags |-> <<>>]

\* variant: a sensitive message is warned about and still returned
evalCheckErrorMessage_SensitiveReturned(expr) ==
    LET ev == ExprValue(expr)
        conv == Convert(ev.val, "string")
    IN  IF HasErrors(ev.diags)
        THEN [msg |-> "", diags |-> ev.diags]
        ELSE IF ~conv.ok
        THEN [msg |-> "",
              diags |-> <<Diagnostic(DiagError, <<"Invalid error message">>,
                                     "Unsuitable value for error message")>>]
        ELSE IF conv.val.state = "unknown"
        THEN [msg |-> "", diags |-> <<>>]
        ELSE IF conv.val.state = "null"
        THEN [msg |-> "",
              diags |-> <<Diagnostic(DiagError, <<"Invalid error message">>,
                                     "must not be null")>>]
        ELSE IF conv.val.sensitive
        THEN [msg |-> TrimSpace(conv.val.v), diags |-> <<SensitiveMessageWarning>>]
        ELSE [msg |-> TrimSpace(conv.val.v), diags |-> <<>>]

evalCheckErrorMessage(expr) ==
    LET ev == ExprValue(expr)
        conv == Convert(ev.val, "string")
    IN  IF HasErrors(ev.diags)
        THEN [msg |-> "", diags |-> ev.diags]
        ELSE IF ~conv.ok
        THEN [msg |-> "",
              diags |-> <<Diagnostic(DiagError, <<"Invalid error message">>,
                                     "Unsuitable value for error message")>>]
        ELSE IF conv.val.state = "unknown"
        THEN [msg |-> "", diags |-> <<>>]
        ELSE IF conv.val.state = "null"
        THEN [msg |-> "",
              diags |-> <<Diagnostic(DiagError, <<"Invalid error message">>,
                                     "must not be null")>>]
        ELSE IF conv.val.sensitive
        THEN [msg |-> "", diags |-> <<SensitiveMessageWarning>>]
        ELSE [msg |-> TrimSpace(conv.val.v), diags |-> <<>>]

\* scope.EvalContext(refs): the diagnostics of resolving the references
ScopeEvalContext(scopeFails) ==
    IF scopeFails
    THEN <<Diagnostic(DiagError, <<"Reference to undeclared resource">>, "")>>
    ELSE <<>>

validateCheckRule(typ, rule, scopeFails) ==
    LET errorMessage == evalCheckErrorMessage(rule.ErrorMessage)
    IN  [ErrorMessage |-> errorMessage.msg,
         Refs |-> rule.Refs,
         diags |-> ScopeEvalContext(scopeFails) \o errorMessage.diags]

checkResult(status, failureMessage, refs) ==
    [Status |-> status, FailureMessage |-> failureMessage, Refs |-> refs]

\* checks.StatusForCtyValue of a known, non-null, unmarked boolean
StatusForCtyValue(val) == IF val.v = "true" THEN "Pass" ELSE "Fail"

\* variant: every rule type warns when its condition is unknown
evalCheckRule_Unknown_WarnsForEveryType(typ, diags) ==
    [result |-> checkResult("Unknown", "", <<>>),
     diags |-> Append(diags,
                      Diagnostic(DiagWarning, <<Description(typ), "known after apply">>,
                                 "The condition could not be evaluated at this time"))]

\* variant: a condition that is not known yet is a defect of the configuration
evalCheckRule_Unknown_AsError(typ, diags) ==
    [result |-> checkResult("Error", "", <<>>),
     diags |-> Append(diags,
                      Diagnostic(DiagError, <<Description(typ), "known after apply">>,
                                 "The condition could not be evaluated at this time"))]

\* the condition is not known yet
evalCheckRule_Unknown(typ, diags) ==
    [result |-> checkResult("Unknown", "", <<>>),
     diags |-> IF typ = "CheckAssertion"
               THEN Append(diags,
                           Diagnostic(DiagWarning,
                                      <<Description(typ), "known after apply">>,
                                      "The condition could not be evaluated at this time"))
               ELSE diags]

errInvalidCondition == "Invalid condition result"

\* variant: a condition that is null or no boolean is reported as a warning
evalCheckRule_InvalidCondition_AsWarning(diags, detail) ==
    [result |-> checkResult("Error", "", <<>>),
     diags |-> Append(diags, Diagnostic(DiagWarning, <<"Invalid condition result">>, detail))]

\* the condition is null or is no boolean
evalCheckRule_InvalidCondition(diags, detail) ==
    [result |-> checkResult("Error", "", <<>>),
     diags |-> Append(diags, Diagnostic(DiagError, <<errInvalidCondition>>, detail))]

InvalidMessageText ==
    "This check failed, but has an invalid error message as described in the other accompanying messages."

\* variant: a failed condition is always an error
evalCheckRule_Failed_AlwaysError(typ, validation, diags, status, severity) ==
    [result |-> checkResult(status, validation.ErrorMessage, validation.Refs),
     diags |-> Append(diags,
                      Diagnostic(DiagError, <<Description(typ), "failed">>,
                                 IF validation.ErrorMessage = ""
                                 THEN InvalidMessageText
                                 ELSE validation.ErrorMessage))]

\* the condition is false
evalCheckRule_Failed(typ, validation, diags, status, severity) ==
    [result |-> checkResult(status, validation.ErrorMessage, validation.Refs),
     diags |-> Append(diags,
                      Diagnostic(severity, <<Description(typ), "failed">>,
                                 IF validation.ErrorMessage = ""
                                 THEN InvalidMessageText
                                 ELSE validation.ErrorMessage))]

evalCheckRule(typ, rule, scopeFails, severity) ==
    LET validation == validateCheckRule(typ, rule, scopeFails)
        cond == ExprValue(rule.Condition)
        diags == validation.diags \o cond.diags
        conv == Convert(cond.val, "bool")
        status == StatusForCtyValue([conv.val EXCEPT !.sensitive = FALSE])
    IN  IF HasErrors(diags)
        THEN [result |-> checkResult("Error", "", <<>>), diags |-> diags]
        ELSE IF cond.val.state = "unknown"
        THEN evalCheckRule_Unknown(typ, diags)
        ELSE IF cond.val.state = "null"
        THEN evalCheckRule_InvalidCondition(
                 diags, "Condition expression must return either true or false, not null.")
        ELSE IF ~conv.ok
        THEN evalCheckRule_InvalidCondition(diags, "Invalid condition result value")
        ELSE IF status # "Fail"
        THEN [result |-> checkResult(status, "", <<>>), diags |-> diags]
        ELSE evalCheckRule_Failed(typ, validation, diags, status, severity)

InitEval ==
    /\ check \in CheckCalls
    /\ evaluated = FALSE
    /\ ruleResult = <<>>
    /\ ruleDiags = <<>>
    /\ CatalogIdle
    /\ CreateIdle
    /\ WalkIdle
    /\ ChecksIdle
    /\ SliceIdle

EvalCheckRule ==
    /\ ~evaluated
    /\ LET out == evalCheckRule(check.typ, check.rule, check.scopeFails, check.severity)
       IN  /\ ruleResult' = out.result
           /\ ruleDiags' = out.diags
    /\ evaluated' = TRUE
    /\ UNCHANGED <<check, notEvalVars>>

NextEval == EvalCheckRule

SpecEval == InitEval /\ [][NextEval]_vars

\* the error message is one evalCheckErrorMessage accepts without an error:
\* it evaluates, has a type that converts to string, and is not null
MessageUsable(expr) ==
    /\ ~expr.evalError
    /\ expr.value.type # "list"
    /\ expr.value.state # "null"

\* the rule has no defect outside its condition: the references resolve and
\* the error message is usable
NoDefectOutsideCondition(c) == ~c.scopeFails /\ MessageUsable(c.rule.ErrorMessage)

\* the condition evaluated to a known value that is not null and is not
\* convertible to bool
ConditionNotBoolean(expr) ==
    /\ ~expr.evalError
    /\ expr.value.state = "known"
    /\ \/ expr.value.type \in {"number", "list"}
       \/ expr.value.type = "string" /\ expr.value.v \notin {"true", "false"}

\* the diagnostics with the given severity and second part of the summary
DiagsWith(diags, severity, what) ==
    {i \in 1 .. Len(diags) :
        /\ diags[i].Severity = severity
        /\ diags[i].Summary \in {<<Description(t), what>> : t \in CheckRuleTypes}}

C18_ConfigDefectIsAlwaysError ==
    (/\ evaluated
     /\ check # <<>>
     /\ \/ ~check.rule.Condition.evalError /\ check.rule.Condition.value.state = "null"
        \/ ConditionNotBoolean(check.rule.Condition)
        \/ ~check.rule.ErrorMessage.evalError /\ ~MessageUsable(check.rule.ErrorMessage))
        => /\ ruleResult.Status = "Error"
           /\ HasErrors(ruleDiags)
           /\ \A i \in 1 .. Len(ruleDiags) :
                  ruleDiags[i].Summary \in {<<errInvalidCondition>>, <<"Invalid error message">>}
                      => ruleDiags[i].Severity = DiagError

C18_Witness ==
    /\ evaluated
    /\ check # <<>>
    /\ check.severity = DiagWarning
    /\ NoDefectOutsideCondition(check)
    /\ check.rule.Condition.value.state = "null"
    /\ ruleResult.Status = "Error"
    /\ HasErrors(ruleDiags)

C20_StatusIndependentOfMessage ==
    (evaluated /\ check # <<>> /\ ~check.rule.ErrorMessage.evalError)
        => \A m \in [value : EvalValues, evalError : {FALSE}] :
               evalCheckRule(check.typ, [check.rule EXCEPT !.ErrorMessage = m],
                             check.scopeFails, check.severity).result.Status
                   = ruleResult.Status

\* the error message evaluates to a known, non-null value marked sensitive
\* that converts to string
MessageSensitive(expr) ==
    /\ ~expr.evalError
    /\ expr.value.state = "known"
    /\ expr.value.type # "list"
    /\ expr.value.sensitive

\* C21: when the error message of a rule evaluates to a sensitive value, its
\* text is in neither the recorded failure message nor the detail of any
\* diagnostic (the summaries are fixed texts): the recorded message is empty and the warning about the
\* sensitive message is among the diagnostics; when the condition is false
\* (and the references resolve) the status is still fail and the failure
\* diagnostic carries the generic detail text.
C21_SensitiveMessageSuppressed ==
    (/\ evaluated
     /\ check # <<>>
     /\ MessageSensitive(check.rule.ErrorMessage))
        => /\ ruleResult.FailureMessage = ""
           /\ \E i \in 1 .. Len(ruleDiags) : ruleDiags[i] = SensitiveMessageWarning
           /\ \A i \in 1 .. Len(ruleDiags) :
                  ruleDiags[i].Detail \notin {check.rule.ErrorMessage.value.v,
                                              TrimSpace(check.rule.ErrorMessage.value.v)}
           /\ (/\ ~check.scopeFails
               /\ ~check.rule.Condition.evalError
               /\ check.rule.Condition.value.state = "known"
               /\ check.rule.Condition.value.type = "bool"
               /\ check.rule.Condition.value.v = "false")
                  => /\ ruleResult.Status = "Fail"
                     /\ \E i \in 1 .. Len(ruleDiags) :
                            /\ ruleDiags[i].Summary = <<Description(check.typ), "failed">>
                            /\ ruleDiags[i].Detail = InvalidMessageText
                            /\ ruleDiags[i].Severity = check.severity

C21_Witness ==
    /\ evaluated
    /\ check # <<>>
    /\ ~check.scopeFails
    /\ check.rule.ErrorMessage.value =
           [type |-> "string", state |-> "known", v |-> "positive number",
            sensitive |-> TRUE]
    /\ check.rule.Condition.value =
           [type |-> "bool", state |-> "known", v |-> "false", sensitive |-> FALSE]
    /\ ruleResult.Status = "Fail"
    /\ ruleResult.FailureMessage = ""
    /\ Len(ruleDiags) = 2

(***************************************************************************)
(* evalCheckRules at plan and at apply                                     *)
(* (internal/terraform/eval_conditions.go, and the plan-then-apply runs of *)
(* internal/terraform/context_apply_checks_test.go).                       *)
(*                                                                         *)
(* A checkable object has a list of rules.  The condition of a rule is an  *)
(* expression over the attribute `number` of a data source; the evaluation *)
(* context of a stage says what that attribute is: at plan it may be       *)
(* unknown, at apply it is known.  evalCheckRules evaluates the rules in   *)
(* the context and reports each result into the result table of the stage  *)
(* (checks.State, not part of these sources: the table is the one the      *)
(* tests read back, a status per rule and the failures recorded).          *)
(***************************************************************************)
MaxRules == 2

\* the rule types of the objects that are planned and applied
CheckableTypes == {"CheckAssertion", "ResourcePrecondition"}

ConditionSources == {"number >= 0", "number < 0", "number", "null"}

\* what the data source returns for `number`
Numbers == {0 - 1, 0}

\* an error message written as a literal, or made from a sensitive value
MessageExpr(text, sensitive) ==
    [value |-> [type |-> "string", state |-> "known", v |-> text, sensitive |-> sensitive],
     evalError |-> FALSE]

MessageSources ==
    {MessageExpr("negative number", FALSE), MessageExpr("positive number", FALSE),
     MessageExpr("positive number", TRUE)}

ConfigRules == [Condition : ConditionSources, ErrorMessage : MessageSources]

RuleLists == UNION {[1 .. n -> ConfigRules] : n \in 0 .. MaxRules}

\* a checkable object with its rules, the severity its caller selects, the
\* number the data source returns, whether that number is known while
\* planning, and whether the configuration declares checks for the object
\* (evalCheckRules panics when it does not and there are rules)
Runs ==
    {r \in [typ : CheckableTypes, rules : RuleLists, severity : Severities,
            number : Numbers, knownAtPlan : BOOLEAN, hasChecks : BOOLEAN] :
        r.hasChecks \/ r.rules = <<>>}

\* the evaluation context while planning
PlanContext(r) ==
    [number |-> IF r.knownAtPlan THEN [state |-> "known", n |-> r.number]
                ELSE [state |-> "unknown", n |-> 0]]

\* the evaluation context while applying: the data source has been read
ApplyContext(r) == [number |-> [state |-> "known", n |-> r.number]]

NumberText(n) == IF n < 0 THEN "negative" ELSE IF n = 0 THEN "0" ELSE "positive"

BoolText(b) == IF b THEN "true" ELSE "false"

\* rule.Condition.Value(ctx): the value of the condition in the context
ConditionValue(src, ctx) ==
    LET num == ctx.number
        of(ty, st, text) == [type |-> ty, state |-> st, v |-> text, sensitive |-> FALSE]
    IN  CASE src = "null" -> of("bool", "null", "")
          [] src = "number" ->
                 IF num.state = "unknown" THEN of("number", "unknown", "")
                 ELSE of("number", "known", NumberText(num.n))
          [] src = "number >= 0" ->
                 IF num.state = "unknown" THEN of("bool", "unknown", "")
                 ELSE of("bool", "known", BoolText(num.n >= 0))
          [] src = "number < 0" ->
                 IF num.state = "unknown" THEN of("bool", "unknown", "")
                 ELSE of("bool", "known", BoolText(num.n < 0))

\* the address data.checks_object.neutral of the data source (addrs.Resource)
NeutralDataSource == [Mode |-> "data", Type |-> "checks_object", Name |-> "neutral"]

\* lang.ReferencesInExpr of the condition: a reference is the address of the
\* object referred to (Subject) and the rest of the traversal (Remaining)
References(src) ==
    IF src = "null" THEN <<>>
    ELSE <<[Subject |-> NeutralDataSource, Remaining |-> <<"number">>]>>

\* the rule as evalCheckRule sees it in the context
RuleInContext(rule, ctx) ==
    [Condition |-> [value |-> ConditionValue(rule.Condition, ctx), evalError |-> FALSE],
     ErrorMessage |-> rule.ErrorMessage,
     Refs |-> References(rule.Condition)]

\* variant: a failure is reported with the whole references
ReportFor_FullReferences(i, res) ==
    IF res.Status = "Fail"
    THEN [call |-> "ReportCheckFailure", index |-> i, message |-> res.FailureMessage,
          refs |-> res.Refs]
    ELSE [call |-> "ReportCheckResult", index |-> i, status |-> res.Status]

\* variant: every rule is reported with its status only
ReportFor_StatusOnly(i, res) ==
    [call |-> "ReportCheckResult", index |-> i, status |-> res.Status]

\* the call evalCheckRules makes on the result table for rule i
ReportFor(i, res) ==
    IF res.Status = "Fail"
    THEN [call |-> "ReportCheckFailure", index |-> i, message |-> res.FailureMessage,
          refs |-> [k \in 1 .. Len(res.Refs) |-> res.Refs[k].Subject]]
    ELSE [call |-> "ReportCheckResult", index |-> i, status |-> res.Status]

\* the loop of evalCheckRules over the first n rules
RECURSIVE evalCheckRulesLoop(_, _, _, _, _)
evalCheckRulesLoop(typ, rules, ctx, severity, n) ==
    IF n = 0
    THEN [diags |-> <<>>, reports |-> <<>>]
    ELSE LET before == evalCheckRulesLoop(typ, rules, ctx, severity, n - 1)
             out == evalCheckRule(typ, RuleInContext(rules[n], ctx), FALSE, severity)
         IN  [diags |-> before.diags \o out.diags,
              reports |-> Append(before.reports, ReportFor(n - 1, out.result))]

evalCheckRules(typ, rules, ctx, hasChecks, severity) ==
    IF ~hasChecks
    THEN [diags |-> <<>>, reports |-> <<>>]
    ELSE IF Len(rules) = 0
    THEN [diags |-> <<>>, reports |-> <<>>]
    ELSE evalCheckRulesLoop(typ, rules, ctx, severity, Len(rules))

\* the result table of an object with n rules when a stage starts
NewTable(n) == [statuses |-> [i \in 0 .. n - 1 |-> "Unknown"], failures |-> <<>>]

\* ReportCheckFailure and ReportCheckResult
Report(table, r) ==
    IF r.call = "ReportCheckFailure"
    THEN [statuses |-> [table.statuses EXCEPT ![r.index] = "Fail"],
          failures |-> Append(table.failures, [message |-> r.message, refs |-> r.refs])]
    ELSE [statuses |-> [table.statuses EXCEPT ![r.index] = r.status],
          failures |-> table.failures]

RECURSIVE ReportAll(_, _)
ReportAll(table, reports) ==
    IF reports = <<>> THEN table
    ELSE ReportAll(Report(table, Head(reports)), Tail(reports))

\* the result of the object as the tests read it: the aggregate status, the
\* failure messages and the reference lists
ObjectResult(table) ==
    LET have(st) == \E i \in DOMAIN table.statuses : table.statuses[i] = st
    IN  [Status |-> IF have("Error") THEN "Error"
                    ELSE IF have("Fail") THEN "Fail"
                    ELSE IF have("Unknown") THEN "Unknown"
                    ELSE "Pass",
         FailureMessages |-> [k \in 1 .. Len(table.failures) |-> table.failures[k].message],
         Refs |-> [k \in 1 .. Len(table.failures) |-> table.failures[k].refs]]

\* what a stage leaves behind
StageOutput(r, ctx) ==
    LET out == evalCheckRules(r.typ, r.rules, ctx, r.hasChecks, r.severity)
    IN  [reports |-> out.reports,
         diags |-> out.diags,
         table |-> ReportAll(NewTable(Len(r.rules)), out.reports)]

InitChecks ==
    /\ run \in Runs
    /\ stage = "start"
    /\ planned = <<>>
    /\ applied = <<>>
    /\ CatalogIdle
    /\ CreateIdle
    /\ WalkIdle
    /\ EvalIdle
    /\ SliceIdle

\* ctx.Plan
PlanChecks ==
    /\ stage = "start"
    /\ planned' = StageOutput(run, PlanContext(run))
    /\ stage' = "planned"
    /\ UNCHANGED <<run, applied, notChecksVars>>

\* ctx.Apply of a plan that has no errors
ApplyChecks ==
    /\ stage = "planned"
    /\ ~HasErrors(planned.diags)
    /\ applied' = StageOutput(run, ApplyContext(run))
    /\ stage' = "applied"
    /\ UNCHANGED <<run, planned, notChecksVars>>

NextChecks ==
    \/ PlanChecks
    \/ ApplyChecks

SpecChecks == InitChecks /\ [][NextChecks]_vars

\* the stages that have run, each with the context it evaluated in
StagesRun ==
    (IF stage \in {"planned", "applied"}
     THEN {[out |-> planned, ctx |-> PlanContext(run)]} ELSE {})
        \cup (IF stage = "applied"
              THEN {[out |-> applied, ctx |-> ApplyContext(run)]} ELSE {})

\* the check block of the mixed scenario: x >= 0 and x < 0 against x = 0
MixedScenario ==
    /\ stage \in {"planned", "applied"}
    /\ run.typ = "CheckAssertion"
    /\ run.rules = <<[Condition |-> "number >= 0",
                      ErrorMessage |-> MessageExpr("negative number", FALSE)],
                     [Condition |-> "number < 0",
                      ErrorMessage |-> MessageExpr("positive number", FALSE)]>>
    /\ run.number = 0
    /\ run.knownAtPlan

\* C22: for a check block with the two assertions x >= 0 and x < 0 evaluated
\* against x = 0, after plan and again after apply: the first assertion is
\* pass, the second is fail with the message "positive number", the status
\* of the check is fail, exactly one failure message is recorded, and there
\* are as many reference lists as failure messages.
C22_MixedCheckFailsAtPlanAndApply ==
    MixedScenario =>
        \A s \in StagesRun :
            /\ s.out.table.statuses[0] = "Pass"
            /\ s.out.table.statuses[1] = "Fail"
            /\ ObjectResult(s.out.table).Status = "Fail"
            /\ ObjectResult(s.out.table).FailureMessages = <<"positive number">>
            /\ Len(ObjectResult(s.out.table).Refs)
                   = Len(ObjectResult(s.out.table).FailureMessages)

C22_Witness ==
    /\ MixedScenario
    /\ stage = "applied"
    /\ ObjectResult(planned.table).Status = "Fail"
    /\ ObjectResult(applied.table).Status = "Fail"
    /\ ObjectResult(applied.table).Refs = <<<<NeutralDataSource>>>>

\* the condition of the rule reads the number of the data source
DependsOnNumber(rule) == rule.Condition # "null"

\* C23: a check whose condition depends on a value that is unknown while
\* planning has status unknown after plan and does not make the plan fail;
\* after apply has resolved the value and evaluated the same rule again the
\* status is a terminal one (pass for number >= 0 when the number is 0), and
\* the apply that took the check from unknown to pass reports no error.
C23_UnknownAtPlanSettlesAtApply ==
    (stage \in {"planned", "applied"} /\ ~run.knownAtPlan) =>
        /\ \A i \in 1 .. Len(run.rules) :
               DependsOnNumber(run.rules[i]) => planned.table.statuses[i - 1] = "Unknown"
        /\ (run.rules # <<>> /\ \A i \in 1 .. Len(run.rules) : DependsOnNumber(run.rules[i]))
               => /\ ObjectResult(planned.table).Status = "Unknown"
                  /\ ~HasErrors(planned.diags)
        /\ stage = "applied" =>
               /\ \A i \in 1 .. Len(run.rules) :
                      DependsOnNumber(run.rules[i]) =>
                          /\ applied.table.statuses[i - 1] \in {"Pass", "Fail", "Error"}
                          /\ (run.rules[i].Condition = "number >= 0" /\ run.number = 0)
                                 => applied.table.statuses[i - 1] = "Pass"
               /\ ObjectResult(applied.table).Status = "Pass" => ~HasErrors(applied.diags)

C23_Witness ==
    /\ stage = "applied"
    /\ ~run.knownAtPlan
    /\ run.typ = "CheckAssertion"
    /\ run.number = 0
    /\ run.rules = <<[Condition |-> "number >= 0",
                      ErrorMessage |-> MessageExpr("negative number", FALSE)]>>
    /\ ObjectResult(planned.table).Status = "Unknown"
    /\ ObjectResult(applied.table).Status = "Pass"

\* C24: evalCheckRules evaluates every rule, in the order of declaration and
\* whatever the earlier rules gave, and makes exactly one report per rule
\* under the rule's zero-based index: a failing rule is reported as a
\* failure with its rendered message and the subject addresses of its
\* references, every other rule with its status only.
C24_OneReportPerRuleInOrder ==
    \A s \in StagesRun :
        /\ Len(s.out.reports) = Len(run.rules)
        /\ \A i \in 1 .. Len(run.rules) :
               LET res == evalCheckRule(run.typ, RuleInContext(run.rules[i], s.ctx),
                                        FALSE, run.severity).result
                   made == s.out.reports[i]
               IN  /\ made.index = i - 1
                   /\ IF res.Status = "Fail"
                      THEN /\ DOMAIN made = {"call", "index", "message", "refs"}
                           /\ made.call = "ReportCheckFailure"
                           /\ made.message = res.FailureMessage
                           /\ made.refs = <<NeutralDataSource>>
                      ELSE /\ DOMAIN made = {"call", "index", "status"}
                           /\ made.call = "ReportCheckResult"
                           /\ made.status = res.Status

\* a failure was reported with its message and subject, and the rule after
\* it was evaluated and reported all the same
C24_Witness ==
    /\ stage = "planned"
    /\ Len(planned.reports) = 2
    /\ planned.reports[1].call = "ReportCheckFailure"
    /\ planned.reports[1].message = "positive number"
    /\ planned.reports[1].refs = <<NeutralDataSource>>
    /\ planned.reports[2] = [call |-> "ReportCheckResult", index |-> 1, status |-> "Error"]

\* some rule of the table did not pass
SomeRuleDoesNotPass(table) ==
    \E i \in DOMAIN table.statuses : table.statuses[i] # "Pass"

MaxElems == 2

\* the indices getChild is called with: negative, in range, past the end
Indices == (0 - 1) .. MaxElems

Nil == [of |-> "nil", at |-> 0]

Elem(name, i) == [of |-> name, at |-> i]

\* the values of one field of a Change: arrays of up to MaxElems entries,
\* with a null first entry where withNull allows it, or a value that is no
\* array
Generics(name, withNull) ==
    {[kind |-> "array",
      elems |-> [i \in 1 .. n |-> IF null /\ i = 1 THEN Nil ELSE Elem(name, i - 1)]] :
        n \in 0 .. MaxElems, null \in (IF withNull THEN BOOLEAN ELSE {FALSE})}
        \cup {[kind |-> "object", elems |-> <<>>]}

Matcher(name) == [name |-> name, at |-> <<>>]

\* attribute_path.Matcher.GetChildWithIndex
GetChildWithIndex(m, index) == [m EXCEPT !.at = Append(@, index)]

Changes ==
    [Before : Generics("Before", TRUE), After : Generics("After", TRUE),
     Unknown : Generics("Unknown", FALSE),
     BeforeSensitive : Generics("BeforeSensitive", FALSE),
     AfterSensitive : Generics("AfterSensitive", FALSE),
     ReplacePaths : {Matcher("ReplacePaths")},
     RelevantAttributes : {Matcher("RelevantAttributes")}]

\* variant: a value that is no array becomes a slice of that one value
genericToSlice_WrapsValue(generic) ==
    IF generic.kind = "array"
    THEN [nil |-> FALSE, elems |-> generic.elems]
    ELSE [nil |-> FALSE, elems |-> <<Elem(generic.kind, 0)>>]

genericToSlice(generic) ==
    IF generic.kind = "array"
    THEN [nil |-> FALSE, elems |-> generic.elems]
    ELSE [nil |-> TRUE, elems |-> <<>>]

\* variant: a null entry is reported as absent
getFromGenericSlice_NullIsAbsent(generic, index) ==
    IF generic.nil
    THEN [v |-> Nil, ok |-> FALSE]
    ELSE IF index < 0 \/ index >= Len(generic.elems)
    THEN [v |-> Nil, ok |-> FALSE]
    ELSE [v |-> generic.elems[index + 1], ok |-> generic.elems[index + 1] # Nil]

getFromGenericSlice(generic, index) ==
    IF generic.nil
    THEN [v |-> Nil, ok |-> FALSE]
    ELSE IF index < 0 \/ index >= Len(generic.elems)
    THEN [v |-> Nil, ok |-> FALSE]
    ELSE [v |-> generic.elems[index + 1], ok |-> TRUE]

asSlice(c) ==
    [Before |-> genericToSlice(c.Before),
     After |-> genericToSlice(c.After),
     Unknown |-> genericToSlice(c.Unknown),
     BeforeSensitive |-> genericToSlice(c.BeforeSensitive),
     AfterSensitive |-> genericToSlice(c.AfterSensitive),
     ReplacePaths |-> c.ReplacePaths,
     RelevantAttributes |-> c.RelevantAttributes]

\* variant: the after index is the most relevant one whenever it is in range
getChild_AfterIndexWins(s, beforeIx, afterIx) ==
    LET mostRelevantIx ==
            IF afterIx < 0 \/ afterIx >= Len(s.After.elems) THEN beforeIx ELSE afterIx
    IN  [BeforeExplicit |-> getFromGenericSlice(s.Before, beforeIx).ok,
         AfterExplicit |-> getFromGenericSlice(s.After, afterIx).ok,
         Before |-> getFromGenericSlice(s.Before, beforeIx).v,
         After |-> getFromGenericSlice(s.After, afterIx).v,
         Unknown |-> getFromGenericSlice(s.Unknown, afterIx).v,
         BeforeSensitive |-> getFromGenericSlice(s.BeforeSensitive, beforeIx).v,
         AfterSensitive |-> getFromGenericSlice(s.AfterSensitive, afterIx).v,
         ReplacePaths |-> GetChildWithIndex(s.ReplacePaths, mostRelevantIx),
         RelevantAttributes |-> GetChildWithIndex(s.RelevantAttributes, mostRelevantIx)]

\* variant: the unknown flag is read at the most relevant index
getChild_UnknownAtMostRelevant(s, beforeIx, afterIx) ==
    LET mostRelevantIx ==
            IF beforeIx < 0 \/ beforeIx >= Len(s.Before.elems) THEN afterIx ELSE beforeIx
    IN  [BeforeExplicit |-> getFromGenericSlice(s.Before, beforeIx).ok,
         AfterExplicit |-> getFromGenericSlice(s.After, afterIx).ok,
         Before |-> getFromGenericSlice(s.Before, beforeIx).v,
         After |-> getFromGenericSlice(s.After, afterIx).v,
         Unknown |-> getFromGenericSlice(s.Unknown, mostRelevantIx).v,
         BeforeSensitive |-> getFromGenericSlice(s.BeforeSensitive, beforeIx).v,
         AfterSensitive |-> getFromGenericSlice(s.AfterSensitive, afterIx).v,
         ReplacePaths |-> GetChildWithIndex(s.ReplacePaths, mostRelevantIx),
         RelevantAttributes |-> GetChildWithIndex(s.RelevantAttributes, mostRelevantIx)]

getChild(s, beforeIx, afterIx) ==
    LET mostRelevantIx ==
            IF beforeIx < 0 \/ beforeIx >= Len(s.Before.elems) THEN afterIx ELSE beforeIx
    IN  [BeforeExplicit |-> getFromGenericSlice(s.Before, beforeIx).ok,
         AfterExplicit |-> getFromGenericSlice(s.After, afterIx).ok,
         Before |-> getFromGenericSlice(s.Before, beforeIx).v,
         After |-> getFromGenericSlice(s.After, afterIx).v,
         Unknown |-> getFromGenericSlice(s.Unknown, afterIx).v,
         BeforeSensitive |-> getFromGenericSlice(s.BeforeSensitive, beforeIx).v,
         AfterSensitive |-> getFromGenericSlice(s.AfterSensitive, afterIx).v,
         ReplacePaths |-> GetChildWithIndex(s.ReplacePaths, mostRelevantIx),
         RelevantAttributes |-> GetChildWithIndex(s.RelevantAttributes, mostRelevantIx)]

InitSlice ==
    /\ input \in Changes
    /\ slice = <<>>
    /\ ix = <<>>
    /\ child = <<>>
    /\ CatalogIdle
    /\ CreateIdle
    /\ WalkIdle
    /\ EvalIdle
    /\ ChecksIdle

\* change.asSlice()
AsSlice ==
    /\ slice = <<>>
    /\ slice' = asSlice(input)
    /\ UNCHANGED <<input, ix, child, notSliceVars>>

\* slice.getChild(beforeIx, afterIx)
GetChild ==
    /\ slice # <<>>
    /\ child = <<>>
    /\ \E beforeIx \in Indices : \E afterIx \in Indices :
           /\ ix' = [beforeIx |-> beforeIx, afterIx |-> afterIx]
           /\ child' = getChild(slice, beforeIx, afterIx)
    /\ UNCHANGED <<input, slice, notSliceVars>>

NextSlice ==
    \/ AsSlice
    \/ GetChild

SpecSlice == InitSlice /\ [][NextSlice]_vars

\* the index is one of an entry of the field of the Change being decomposed
InRange(field, index) ==
    /\ input[field].kind = "array"
    /\ index >= 0
    /\ index < Len(input[field].elems)

\* the entry of the field at the index, nil when there is none
EntryAt(field, index) ==
    IF InRange(field, index) THEN input[field].elems[index + 1] ELSE Nil

\* C26: getChild never fails: on each side for itself, an index that is
\* negative or not below the length of that side gives an absent value with
\* explicit = false, and an index in range gives the entry with
\* explicit = true, also when the entry is a null entry.
C26_OutOfRangeIsAbsentNotExplicit ==
    child # <<>> =>
        /\ child.BeforeExplicit = InRange("Before", ix.beforeIx)
        /\ child.Before = EntryAt("Before", ix.beforeIx)
        /\ ~InRange("Before", ix.beforeIx) => child.Before = Nil
        /\ child.AfterExplicit = InRange("After", ix.afterIx)
        /\ child.After = EntryAt("After", ix.afterIx)
        /\ ~InRange("After", ix.afterIx) => child.After = Nil

\* the before index reads a null entry, the after index is past the end
C26_Witness ==
    /\ child # <<>>
    /\ InRange("Before", ix.beforeIx)
    /\ child.Before = Nil /\ child.BeforeExplicit
    /\ input.After.kind = "array" /\ ix.afterIx = Len(input.After.elems)
    /\ child.After = Nil /\ ~child.AfterExplicit

\* the index the replace paths and the relevant attributes of the child are
\* taken at
MostRelevantIndex ==
    IF InRange("Before", ix.beforeIx) THEN ix.beforeIx ELSE ix.afterIx

\* C27: with beforeIndex out of range of the before array getChild takes the
\* replace paths and the relevant attributes of the child at afterIndex;
\* whenever beforeIndex is in range it takes them at beforeIndex, also when
\* afterIndex is out of range and when both are in range.
C27_MatchersAtMostRelevantIndex ==
    child # <<>> =>
        /\ child.ReplacePaths = [name |-> "ReplacePaths", at |-> <<MostRelevantIndex>>]
        /\ child.RelevantAttributes
               = [name |-> "RelevantAttributes", at |-> <<MostRelevantIndex>>]

\* both indices are in range and differ
C27_Witness ==
    /\ child # <<>>
    /\ InRange("Before", ix.beforeIx)
    /\ InRange("After", ix.afterIx)
    /\ ix.beforeIx # ix.afterIx
    /\ child.ReplacePaths.at = <<ix.beforeIx>>

\* C28 as stated: the sensitivity of the child is addressed with the most
\* relevant index: sourced from afterIndex when beforeIndex is out of range,
\* from beforeIndex when afterIndex is out of range and when both are in
\* range.
C28_SensitivityAtMostRelevantIndex ==
    child # <<>> =>
        /\ child.BeforeSensitive = EntryAt("BeforeSensitive", MostRelevantIndex)
        /\ child.AfterSensitive = EntryAt("AfterSensitive", MostRelevantIndex)

\* C29: getChild reads the unknown flag of the child at afterIndex and never
\* at beforeIndex: for a given afterIndex the flag is the same for every
\* beforeIndex, and it is absent when afterIndex is out of range of the
\* unknown array.
C29_UnknownReadAtAfterIndex ==
    child # <<>> =>
        /\ child.Unknown = EntryAt("Unknown", ix.afterIx)
        /\ \A beforeIx \in Indices :
               getChild(slice, beforeIx, ix.afterIx).Unknown = child.Unknown
        /\ ~InRange("Unknown", ix.afterIx) => child.Unknown = Nil

\* the before index is in range and is another entry of the unknown array
C29_Witness ==
    /\ child # <<>>
    /\ InRange("Before", ix.beforeIx)
    /\ InRange("Unknown", ix.beforeIx)
    /\ InRange("Unknown", ix.afterIx)
    /\ ix.beforeIx # ix.afterIx
    /\ child.Unknown = Elem("Unknown", ix.afterIx)

SliceFields == {"Before", "After", "Unknown", "BeforeSensitive", "AfterSensitive"}

\* C30: decomposing a Change whose before, after, unknown or sensitivity
\* value is no array does not fail: that field becomes an empty slice,
\* getChild returns absent, with explicit = false, for it at every index,
\* and the matchers of replace paths and relevant attributes are carried
\* over unchanged.
C30_NonArrayBecomesEmptySlice ==
    slice # <<>> =>
        /\ \A field \in SliceFields :
               input[field].kind # "array" =>
                   /\ Len(slice[field].elems) = 0
                   /\ \A beforeIx \in Indices : \A afterIx \in Indices :
                          LET c == getChild(slice, beforeIx, afterIx)
                          IN  /\ c[field] = Nil
                              /\ field = "Before" => ~c.BeforeExplicit
                              /\ field = "After" => ~c.AfterExplicit
        /\ slice.ReplacePaths = input.ReplacePaths
        /\ slice.RelevantAttributes = input.RelevantAttributes

\* the before value is no array while the after value is one
C30_Witness ==
    /\ child # <<>>
    /\ input.Before.kind # "array"
    /\ input.BeforeSensitive.kind # "array"
    /\ InRange("After", ix.afterIx)
    /\ child.Before = Nil /\ ~child.BeforeExplicit
    /\ child.AfterExplicit
    /\ child.ReplacePaths.at = <<ix.afterIx>>

====
